---- MODULE Spec2Model ----
(***************************************************************************)
(* Model of the Changes tree of the IntelliJ-style Git extension:          *)
(*   - getDirectoryDiff (gitService.ts): runs `git diff --name-status`     *)
(*     and parses its line-oriented output into DiffFileInfo records;      *)
(*   - ChangeTreeItem / ChangesTreeProvider (changesTreeProvider.ts, kept  *)
(*     in this snapshot at the end of CHANGELOG.md): the tree builder and  *)
(*     the provider's setCompareContext / clear / refresh / query          *)
(*     operations.                                                         *)
(* Strings are sequences of one-character strings, so that split, trim,    *)
(* charAt, path.relative, path.dirname and localeCompare are computed and  *)
(* not assumed.                                                            *)
(***************************************************************************)
EXTENDS Integers, Sequences, FiniteSets, TLC

(***************************************************************************)
(* Optional values: <<>> is null / undefined, <<v>> is the value v.        *)
(***************************************************************************)
None == <<>>

Some(v) == <<v>>

IsSome(o) == o # <<>>

(***************************************************************************)
(* Strings                                                                 *)
(***************************************************************************)
TAB == "\t"

SLASH == "/"

BACKSLASH == "\\"

\* String.prototype.split(sep) for a one-character separator
RECURSIVE SplitFrom(_, _, _, _)
SplitFrom(s, sep, i, cur) ==
    IF i > Len(s) THEN <<cur>>
    ELSE IF s[i] = sep THEN <<cur>> \o SplitFrom(s, sep, i + 1, <<>>)
    ELSE SplitFrom(s, sep, i + 1, Append(cur, s[i]))

Split(s, sep) == SplitFrom(s, sep, 1, <<>>)

\* Array.prototype.join(sep)
RECURSIVE Join(_, _)
Join(parts, sep) ==
    IF parts = <<>> THEN <<>>
    ELSE IF Len(parts) = 1 THEN parts[1]
    ELSE parts[1] \o <<sep>> \o Join(Tail(parts), sep)

\* s.replace(/\\/g, '/')
ReplaceBackslashes(s) == [i \in DOMAIN s |-> IF s[i] = BACKSLASH THEN SLASH ELSE s[i]]

\* s.charAt(0): the empty string when s is empty
CharAt0(s) == IF s = <<>> THEN "" ELSE s[1]

\* path.dirname(p) for an absolute POSIX path
DirName(p) ==
    LET parts == Split(p, SLASH)
        front == SubSeq(parts, 1, Len(parts) - 1)
        d     == Join(front, SLASH)
    IN IF d = <<>> THEN <<SLASH>> ELSE d

IsPrefix(u, v) == Len(u) <= Len(v) /\ SubSeq(v, 1, Len(u)) = u

\* path.relative(from, to) for absolute POSIX paths with `to` inside `from`
\* (every context's basePath lies in its repoRoot: the commands take repoRoot
\* from getRepoRoot(basePath)); the same directory gives the empty string.
Relative(from, to) ==
    IF to = from THEN <<>> ELSE SubSeq(to, Len(from) + 2, Len(to))

(***************************************************************************)
(* String.prototype.localeCompare with the default (root) collation:       *)
(* strings are compared on primary weights first (white space, then        *)
(* punctuation, then digits, then letters, case ignored), and only if all  *)
(* primary weights agree on the case level (lower case before upper case). *)
(***************************************************************************)
CollationOrder ==
    << <<TAB>>, <<".">>, <<SLASH>>, <<BACKSLASH>>, <<"0">>, <<"1">>,
       <<"a", "A">>, <<"b", "B">>, <<"c", "C">>, <<"d", "D">>, <<"m", "M">>,
       <<"o", "O">>, <<"r", "R">>, <<"t", "T">>, <<"u", "U">>, <<"x", "X">>,
       <<"y", "Y">>, <<"z", "Z">> >>

Alphabet == UNION {{CollationOrder[i][j] : j \in DOMAIN CollationOrder[i]} : i \in DOMAIN CollationOrder}

PrimaryWeights ==
    [c \in Alphabet |-> CHOOSE i \in DOMAIN CollationOrder :
                            \E j \in DOMAIN CollationOrder[i] : CollationOrder[i][j] = c]

TertiaryWeights ==
    [c \in Alphabet |-> CHOOSE j \in 1..2 :
                            \E i \in DOMAIN CollationOrder :
                                j \in DOMAIN CollationOrder[i] /\ CollationOrder[i][j] = c]

RECURSIVE CompareLevel(_, _, _, _)
CompareLevel(weights, a, b, i) ==
    IF i > Len(a) /\ i > Len(b) THEN 0
    ELSE IF i > Len(a) THEN -1
    ELSE IF i > Len(b) THEN 1
    ELSE IF weights[a[i]] < weights[b[i]] THEN -1
    ELSE IF weights[a[i]] > weights[b[i]] THEN 1
    ELSE CompareLevel(weights, a, b, i + 1)

\* a comparison that ignores case: paths that differ in case only compare equal
LocaleCompare_PrimaryOnly(a, b) == CompareLevel(PrimaryWeights, a, b, 1)

LocaleCompare(a, b) ==
    LET p == CompareLevel(PrimaryWeights, a, b, 1)
    IN IF p # 0 THEN p ELSE CompareLevel(TertiaryWeights, a, b, 1)

(***************************************************************************)
(* [...files].sort((a, b) => a.path.localeCompare(b.path)): the sort is    *)
(* stable, so records that compare equal keep their input order.           *)
(***************************************************************************)
RECURSIVE InsertSorted(_, _)
InsertSorted(sorted, f) ==
    IF sorted = <<>> THEN <<f>>
    ELSE IF LocaleCompare(Head(sorted).path, f.path) <= 0
         THEN <<Head(sorted)>> \o InsertSorted(Tail(sorted), f)
         ELSE <<f>> \o sorted

\* a build that takes the records in the order git printed them
SortFiles_Unsorted(files) == files

RECURSIVE SortFiles(_)
SortFiles(files) ==
    IF files = <<>> THEN <<>>
    ELSE InsertSorted(SortFiles(SubSeq(files, 1, Len(files) - 1)), files[Len(files)])

(***************************************************************************)
(* getDirectoryDiff: the parser of `git diff --name-status` output.        *)
(* A git result is [ok, stdout]: ok = FALSE when execFile rejects (git     *)
(* fails, not a repository, unknown ref); stdout is the sequence of lines  *)
(* of stdout.trim().split('\n'), <<>> when stdout.trim() is empty.         *)
(***************************************************************************)
\* a callback that knows renames only: a copy is read as a two-column line
ParseLine_RenamesOnly(line) ==
    LET parts  == Split(line, TAB)
        status == CharAt0(parts[1])
    IN IF status = "R"
       THEN [status  |-> status,
             oldPath |-> IF Len(parts) >= 2 THEN Some(parts[2]) ELSE None,
             path    |-> IF Len(parts) >= 3 THEN Some(parts[3]) ELSE None]
       ELSE [status  |-> status,
             oldPath |-> None,
             path    |-> IF Len(parts) >= 2 THEN Some(parts[2]) ELSE None]

\* the callback of .map(line => ...): path is optional until the filter
ParseLine(line) ==
    LET parts  == Split(line, TAB)
        status == CharAt0(parts[1])
    IN IF status = "R" \/ status = "C"
       THEN [status  |-> status,
             oldPath |-> IF Len(parts) >= 2 THEN Some(parts[2]) ELSE None,
             path    |-> IF Len(parts) >= 3 THEN Some(parts[3]) ELSE None]
       ELSE [status  |-> status,
             oldPath |-> None,
             path    |-> IF Len(parts) >= 2 THEN Some(parts[2]) ELSE None]

\* the predicate of .filter(file => file.path): undefined and '' are falsy
HasPath(parsed) == IsSome(parsed.path) /\ parsed.path[1] # <<>>

\* a DiffFileInfo: status, path, and the optional oldPath
DiffFileInfo(parsed) ==
    [status |-> parsed.status, path |-> parsed.path[1], oldPath |-> parsed.oldPath]

\* a parser that gives up at the first line without a path
RECURSIVE ParseLines_StopAtMalformed(_)
ParseLines_StopAtMalformed(lines) ==
    IF lines = <<>> THEN <<>>
    ELSE LET p == ParseLine(Head(lines))
         IN IF HasPath(p) THEN <<DiffFileInfo(p)>> \o ParseLines_StopAtMalformed(Tail(lines))
            ELSE <<>>

RECURSIVE ParseLines(_)
ParseLines(lines) ==
    IF lines = <<>> THEN <<>>
    ELSE LET p == ParseLine(Head(lines))
         IN (IF HasPath(p) THEN <<DiffFileInfo(p)>> ELSE <<>>) \o ParseLines(Tail(lines))

GetDirectoryDiff(gitResult) ==
    IF ~gitResult.ok THEN <<>>
    ELSE IF gitResult.stdout = <<>> THEN <<>>
    ELSE ParseLines(gitResult.stdout)

(***************************************************************************)
(* ChangeTreeItem.  Tree items are objects: the heap maps an object id to  *)
(* the item's fields, and rootItems / children / parent hold object ids.   *)
(* An id is <<epoch, k>>: the k-th item constructed by build number epoch. *)
(***************************************************************************)
EmptyHeap == <<>>

\* the text `${count} file${count !== 1 ? 's' : ''}` as <<count, noun>>
FolderDescription(count) == <<count, IF count # 1 THEN "files" ELSE "file">>

GetStatusLabel(status) ==
    CASE status = "A" -> "Added"
      [] status = "M" -> "Modified"
      [] status = "D" -> "Deleted"
      [] status = "R" -> "Renamed"
      [] status = "C" -> "Copied"
      [] status = "U" -> "Unmerged"
      [] OTHER -> status

RECURSIVE CountFiles(_, _)
RECURSIVE CountFilesIn(_, _)
\* ChangeTreeItem.countFiles
CountFiles(heap, id) == CountFilesIn(heap, heap[id].children)

CountFilesIn(heap, items) ==
    IF items = <<>> THEN 0
    ELSE (IF heap[Head(items)].isFolder THEN CountFiles(heap, Head(items)) ELSE 1)
         + CountFilesIn(heap, Tail(items))

\* ChangeTreeItem.updateDescription
UpdateDescription(heap, id) ==
    IF heap[id].isFolder
    THEN [heap EXCEPT ![id].description = FolderDescription(CountFiles(heap, id))]
    ELSE heap

\* new ChangeTreeItem(label, collapsibleState, isFolder, fileInfo, repoRoot, ref, fullPath)
NewItem(label, isFolder, fileInfo, repoRoot, ref, fullPath) ==
    [label       |-> label,
     isFolder    |-> isFolder,
     fileInfo    |-> fileInfo,
     repoRoot    |-> repoRoot,
     ref         |-> ref,
     fullPath    |-> fullPath,
     children    |-> <<>>,
     parent      |-> None,
     description |-> IF isFolder THEN FolderDescription(0)
                     ELSE IF IsSome(fileInfo) THEN <<GetStatusLabel(fileInfo[1].status)>>
                     ELSE <<>>]

\* an addChild that does not store the back-reference
AddChild_NoBackReference(heap, parentId, childId) ==
    LET linked == [heap EXCEPT ![parentId].children = Append(@, childId)]
    IN UpdateDescription(linked, parentId)

\* ChangeTreeItem.addChild: only the receiver's own description is refreshed
AddChild(heap, parentId, childId) ==
    LET linked == [heap EXCEPT ![childId].parent = Some(parentId),
                               ![parentId].children = Append(@, childId)]
    IN UpdateDescription(linked, parentId)

(***************************************************************************)
(* ChangesTreeProvider.buildTreeStructure.  The build state is             *)
(* [heap, roots, folderMap, made]: folderMap is the build's own            *)
(* path -> folder lookup table, made the number of items constructed.      *)
(***************************************************************************)
RECURSIVE UpdateAllFolderDescriptions(_, _)
UpdateAllFolderDescriptions(heap, items) ==
    IF items = <<>> THEN heap
    ELSE LET item == Head(items)
             h1   == IF heap[item].isFolder
                     THEN UpdateAllFolderDescriptions(UpdateDescription(heap, item),
                                                      heap[item].children)
                     ELSE heap
         IN UpdateAllFolderDescriptions(h1, Tail(items))

\* attach a new item to currentParent, or to the root list when there is none
Attach(st, epoch, item, currentParent) ==
    LET id == <<epoch, st.made + 1>>
        h1 == (id :> item) @@ st.heap
    IN [st EXCEPT !.made  = st.made + 1,
                  !.heap  = IF IsSome(currentParent)
                            THEN AddChild(h1, currentParent[1], id) ELSE h1,
                  !.roots = IF IsSome(currentParent) THEN @ ELSE Append(@, id)]

\* the inner loop `for (const part of pathParts)`; yields [st, currentParent]
RECURSIVE WalkFolders(_, _, _, _, _, _)
WalkFolders(st, epoch, ctx, pathParts, currentParent, currentPath) ==
    IF pathParts = <<>> THEN [st |-> st, currentParent |-> currentParent]
    ELSE LET part == Head(pathParts)
             cp   == IF currentPath # <<>> THEN currentPath \o <<SLASH>> \o part ELSE part
             st1  == IF cp \in DOMAIN st.folderMap THEN st
                     ELSE LET folderItem == NewItem(part, TRUE, None, Some(ctx.repoRoot),
                                                    Some(ctx.ref), cp)
                              a == Attach(st, epoch, folderItem, currentParent)
                          IN [a EXCEPT !.folderMap = (cp :> <<epoch, a.made>>) @@ @]
         IN WalkFolders(st1, epoch, ctx, Tail(pathParts), Some(st1.folderMap[cp]), cp)

\* a build that pushes every file item to the root list
AddFile_AtRoot(st, epoch, ctx, file) ==
    LET parts     == Split(file.path, SLASH)
        fileName  == parts[Len(parts)]
        pathParts == SubSeq(parts, 1, Len(parts) - 1)
        w         == WalkFolders(st, epoch, ctx, pathParts, None, <<>>)
        fileItem  == NewItem(fileName, FALSE, Some(file), Some(ctx.repoRoot),
                             Some(ctx.ref), file.path)
    IN Attach(w.st, epoch, fileItem, None)

\* a build that does not take the file name off the path: the last segment
\* becomes a folder too
AddFile_FolderPerPart(st, epoch, ctx, file) ==
    LET parts     == Split(file.path, SLASH)
        fileName  == parts[Len(parts)]
        w         == WalkFolders(st, epoch, ctx, parts, None, <<>>)
        fileItem  == NewItem(fileName, FALSE, Some(file), Some(ctx.repoRoot),
                             Some(ctx.ref), file.path)
    IN Attach(w.st, epoch, fileItem, w.currentParent)

\* the body of `for (const file of sortedFiles)`
AddFile(st, epoch, ctx, file) ==
    LET parts     == Split(file.path, SLASH)
        fileName  == parts[Len(parts)]
        pathParts == SubSeq(parts, 1, Len(parts) - 1)
        w         == WalkFolders(st, epoch, ctx, pathParts, None, <<>>)
        fileItem  == NewItem(fileName, FALSE, Some(file), Some(ctx.repoRoot),
                             Some(ctx.ref), file.path)
    IN Attach(w.st, epoch, fileItem, w.currentParent)

RECURSIVE AddFiles(_, _, _, _)
AddFiles(st, epoch, ctx, sortedFiles) ==
    IF sortedFiles = <<>> THEN st
    ELSE AddFiles(AddFile(st, epoch, ctx, Head(sortedFiles)), epoch, ctx, Tail(sortedFiles))

\* a build that keeps the root list of the build before
ResetRootItems_Keep(oldRoots) == oldRoots

\* `this.rootItems = []`
ResetRootItems(oldRoots) == <<>>

\* `const folderMap = new Map()`
NewFolderMap == <<>>

\* a build that ends without the final pass over the folders
FinishBuild_NoPass(heap, roots) == heap

\* the last statement: updateAllFolderDescriptions(this.rootItems)
FinishBuild(heap, roots) == UpdateAllFolderDescriptions(heap, roots)

\* the items reachable from a list of items (the rest of the heap is garbage)
RECURSIVE Reachable(_, _)
Reachable(heap, items) ==
    IF items = <<>> THEN {}
    ELSE {Head(items)} \cup Reachable(heap, heap[Head(items)].children)
                       \cup Reachable(heap, Tail(items))

Collect(heap, roots) ==
    LET live == Reachable(heap, roots) IN [id \in live |-> heap[id]]

\* a build that returns on an empty record list before it resets the root list
BuildTreeStructure_ReturnFirst(compareContext, changedFiles, oldRoots, oldHeap, epoch) ==
    IF ~IsSome(compareContext) \/ Len(changedFiles) = 0
    THEN [roots |-> oldRoots, heap |-> Collect(oldHeap, oldRoots)]
    ELSE LET roots0 == ResetRootItems(oldRoots)
             st0 == [heap |-> oldHeap, roots |-> roots0,
                     folderMap |-> NewFolderMap, made |-> 0]
             st1 == AddFiles(st0, epoch, compareContext[1], SortFiles(changedFiles))
             h   == FinishBuild(st1.heap, st1.roots)
         IN [roots |-> st1.roots, heap |-> Collect(h, st1.roots)]

\* a build whose lookup table is kept from build to build: it starts with the
\* folders of the tree held before
BuildState_RetainedMap(compareContext, changedFiles, oldRoots, oldHeap, epoch) ==
    LET roots0   == ResetRootItems(oldRoots)
        folders  == {id \in DOMAIN oldHeap : oldHeap[id].isFolder}
        retained == [currentPath \in {oldHeap[id].fullPath : id \in folders} |->
                        CHOOSE id \in folders : oldHeap[id].fullPath = currentPath]
    IN IF ~IsSome(compareContext) \/ Len(changedFiles) = 0
       THEN [heap |-> oldHeap, roots |-> roots0, folderMap |-> retained, made |-> 0]
       ELSE LET st0 == [heap |-> oldHeap, roots |-> roots0,
                        folderMap |-> retained, made |-> 0]
            IN AddFiles(st0, epoch, compareContext[1], SortFiles(changedFiles))

\* buildTreeStructure up to the end of its loop: the build state, in which the
\* objects of the tree held before are still there
BuildState(compareContext, changedFiles, oldRoots, oldHeap, epoch) ==
    LET roots0 == ResetRootItems(oldRoots)
    IN IF ~IsSome(compareContext) \/ Len(changedFiles) = 0
       THEN [heap |-> oldHeap, roots |-> roots0, folderMap |-> <<>>, made |-> 0]
       ELSE LET st0 == [heap |-> oldHeap, roots |-> roots0,
                        folderMap |-> NewFolderMap, made |-> 0]
            IN AddFiles(st0, epoch, compareContext[1], SortFiles(changedFiles))

\* buildTreeStructure on the provider's fields; yields the new [roots, heap]
BuildTreeStructure(compareContext, changedFiles, oldRoots, oldHeap, epoch) ==
    LET st1 == BuildState(compareContext, changedFiles, oldRoots, oldHeap, epoch)
    IN IF ~IsSome(compareContext) \/ Len(changedFiles) = 0
       THEN [roots |-> st1.roots, heap |-> Collect(oldHeap, st1.roots)]
       ELSE LET h == FinishBuild(st1.heap, st1.roots)
            IN [roots |-> st1.roots, heap |-> Collect(h, st1.roots)]

(***************************************************************************)
(* Inputs.  The repository root is /r; a comparison context is the         *)
(* CompareContext the commands pass to setCompareContext.                  *)
(***************************************************************************)
RepoRoot == <<SLASH, "r">>

P_a == <<"a">>

P_t == <<"t">>

P_ax == <<"a", SLASH, "x">>

P_aby == <<"a", SLASH, "b", SLASH, "y">>

P_Az == <<"A", SLASH, "z">>

P_ao == <<"a", SLASH, "o">>

P_da == <<"d", SLASH, "a">>

P_dub == <<"d", SLASH, "u", SLASH, "b">>

CompareContext(rel, ref, refLabel, isDirectory) ==
    [basePath    |-> IF rel = <<>> THEN RepoRoot ELSE RepoRoot \o <<SLASH>> \o rel,
     ref         |-> ref,
     refLabel    |-> refLabel,
     repoRoot    |-> RepoRoot,
     isDirectory |-> isDirectory]

CtxRepo == CompareContext(<<>>, "3f2a91c04e", "3f2a91c", TRUE)

CtxDirA == CompareContext(P_a, "main", "main", TRUE)

CtxFileAX == CompareContext(P_ax, "v1", "v1", FALSE)

Contexts == {CtxRepo, CtxDirA, CtxFileAX}

\* one line of `git diff --name-status`: the columns joined by tabs
Line(columns) == Join(columns, TAB)

L_M_ax == Line(<<<<"M">>, P_ax>>)

L_A_ax == Line(<<<<"A">>, P_ax>>)

L_A_aby == Line(<<<<"A">>, P_aby>>)

L_D_t == Line(<<<<"D">>, P_t>>)

L_D_a == Line(<<<<"D">>, P_a>>)

L_M_Az == Line(<<<<"M">>, P_Az>>)

L_R_ao_ax == Line(<<<<"R", "1", "0", "0">>, P_ao, P_ax>>)

L_C_t_ao == Line(<<<<"C", "1", "0", "0">>, P_t, P_ao>>)

L_A_da == Line(<<<<"A">>, P_da>>)

L_M_dub == Line(<<<<"M">>, P_dub>>)

\* the lines the provider's protocol is exercised with
ProtocolLines == {L_A_ax, L_A_aby, L_D_t}

\* the lines the provider is exercised with when the tree view pulls from it
HostLines == {L_A_aby, L_D_t}

\* the lines the tree builder is exercised with
BuilderLines == {L_M_ax, L_A_aby, L_D_t, L_D_a, L_M_Az, L_R_ao_ax, L_C_t_ao,
                 L_A_da, L_M_dub}

\* longest git output, in lines
MaxLines == 3

\* the path a line reports: its last column (None when it has one column)
LinePath(line) ==
    LET parts == Split(line, TAB) IN IF Len(parts) >= 2 THEN Some(parts[Len(parts)]) ELSE None

\* git lists a path once: the outputs are the sequences of at most MaxLines
\* lines with pairwise distinct paths
RECURSIVE OutputsOfLen(_, _)
OutputsOfLen(lines, n) ==
    IF n = 0 THEN {<<>>}
    ELSE {Append(out, l) : out \in OutputsOfLen(lines, n - 1), l \in lines}

DistinctPaths(out) ==
    \A i, j \in DOMAIN out : i # j => LinePath(out[i]) # LinePath(out[j])

\* the paths a git output says exist in the compared revision (modified and
\* deleted paths, sources of renames and copies) and in the working tree
\* (modified and added paths, targets of renames and copies, sources of copies)
RefPaths(out) ==
    {Split(out[i], TAB)[2] : i \in {k \in DOMAIN out : out[k][1] \in {"M", "D", "R", "C"}}}

WorkPaths(out) ==
    {LinePath(out[i])[1] : i \in {k \in DOMAIN out : out[k][1] \in {"M", "A", "R", "C"}}}
        \cup {Split(out[i], TAB)[2] : i \in {k \in DOMAIN out : out[k][1] = "C"}}

\* in one revision no file lies below another file
IsFileTree(paths) == \A p, q \in paths : ~IsPrefix(p \o <<SLASH>>, q)

Stdouts(lines) ==
    {out \in UNION {OutputsOfLen(lines, n) : n \in 0..MaxLines} :
        DistinctPaths(out) /\ IsFileTree(RefPaths(out)) /\ IsFileTree(WorkPaths(out))}

GitFailure == [ok |-> FALSE, stdout |-> <<>>]

GitResults(lines) ==
    {GitFailure} \cup {[ok |-> TRUE, stdout |-> out] : out \in Stdouts(lines)}

ProtocolGitResults == GitResults(ProtocolLines)

HostGitResults == GitResults(HostLines)

BuilderGitResults == GitResults(BuilderLines)

\* the directory handed to getDirectoryDiff
FetchDir(ctx) == IF ctx.isDirectory THEN ctx.basePath ELSE DirName(ctx.basePath)

\* the pathspec argument of the git call: `relativePath || '.'`
GitPathspec(ctx) ==
    LET relativePath == ReplaceBackslashes(Relative(ctx.repoRoot, FetchDir(ctx)))
    IN IF relativePath = <<>> THEN <<".">> ELSE relativePath

\* git diff -- <pathspec> lists only paths under the pathspec
UnderPathspec(pathspec, path) ==
    pathspec = <<".">> \/ path = pathspec \/ IsPrefix(pathspec \o <<SLASH>>, path)

GitCanPrint(ctx, gitResult) ==
    \A i \in DOMAIN gitResult.stdout :
        LET p == LinePath(gitResult.stdout[i])
        IN IsSome(p) => UnderPathspec(GitPathspec(ctx), p[1])

(***************************************************************************)
(* ChangesTreeProvider                                                     *)
(***************************************************************************)
VARIABLES
    compareContext,  \* this.compareContext: None or Some(context)
    changedFiles,    \* this.changedFiles
    rootItems,       \* this.rootItems: object ids
    heap,            \* the ChangeTreeItem objects reachable from rootItems
    inflight,        \* setCompareContext calls suspended at their await: context -> how many
    fireCount,       \* number of _onDidChangeTreeData.fire() calls so far
    notified,        \* the root list a listener read when fire() called it last
    fetched,         \* history: None, or Some([ctx, git]) the call and git result changedFiles came from
    cleared,         \* history: clear() has run and setCompareContext was not called since
    reply,           \* history: the last operation and what it handed back
    cmd              \* the command handler that is running: its position and what it did

vars == <<compareContext, changedFiles, rootItems, heap, inflight, fireCount,
          notified, fetched, cleared, reply, cmd>>

provider == <<compareContext, changedFiles, rootItems, heap>>

\* most setCompareContext calls suspended at the same time
MaxInflight == 2

\* most notifications fired in one run
MaxFires == 3

RECURSIVE SumOver(_, _)
SumOver(f, S) ==
    IF S = {} THEN 0
    ELSE LET c == CHOOSE c \in S : TRUE IN f[c] + SumOver(f, S \ {c})

InflightCount == SumOver(inflight, Contexts)

\* what an operation hands back: the operation's name and its value
Reply(op, value) == [op |-> op, value |-> value]

\* no command handler is running
NoCommand == [name |-> "none", pc |-> "idle"]

Init ==
    /\ cmd = NoCommand
    /\ compareContext = None
    /\ changedFiles = <<>>
    /\ rootItems = <<>>
    /\ heap = EmptyHeap
    /\ inflight = [c \in Contexts |-> 0]
    /\ fireCount = 0
    /\ notified = <<>>
    /\ fetched = None
    /\ cleared = FALSE
    /\ reply = Reply("activate", None)

\* the single-file branch as it was before 0.3.0: the status is always Modified
SingleFileRecords_HardcodedM(ctx, allDiffs) ==
    <<[status  |-> "M",
       path    |-> ReplaceBackslashes(Relative(ctx.repoRoot, ctx.basePath)),
       oldPath |-> None]>>

\* the single-file branch of setCompareContext, after the await
SingleFileRecords(ctx, allDiffs) ==
    LET relativePath == ReplaceBackslashes(Relative(ctx.repoRoot, ctx.basePath))
        matches      == {i \in DOMAIN allDiffs : allDiffs[i].path = relativePath}
    IN IF matches # {}
       THEN <<allDiffs[CHOOSE i \in matches : \A j \in matches : i <= j]>>
       ELSE <<[status |-> "M", path |-> relativePath, oldPath |-> None]>>

\* the records setCompareContext(ctx) stores when git answers gitResult
FetchedRecords(ctx, gitResult) ==
    IF ctx.isDirectory THEN GetDirectoryDiff(gitResult)
    ELSE SingleFileRecords(ctx, GetDirectoryDiff(gitResult))

\* setCompareContext up to its await: the context is stored, git is started and
\* the caller (a command, or refresh) holds a pending promise
StartSetCompareContext(ctx, caller) ==
    /\ InflightCount < MaxInflight
    /\ compareContext' = Some(ctx)
    /\ inflight' = [inflight EXCEPT ![ctx] = @ + 1]
    /\ cleared' = FALSE
    /\ reply' = Reply(caller, Some("pending"))
    /\ UNCHANGED <<changedFiles, rootItems, heap, fireCount, notified, fetched>>

SetCompareContext(ctx) ==
    StartSetCompareContext(ctx, "setCompareContext") /\ UNCHANGED cmd

\* the call a resumption belongs to, when the caller made it in the step before
\* and nothing else is in flight: the call was awaited with nothing interleaved
AwaitedCall ==
    IF InflightCount = 1 /\ reply.op \in {"setCompareContext", "refresh"}
                         /\ reply.value = Some("pending")
    THEN reply.op ELSE "overlapped"

\* a fire() placed before the statement that replaces the root list
ListenerReads_FiredFirst(rootsBefore, rootsAfter) == rootsBefore

\* what a listener called by fire() reads as this.rootItems: fire() is the last
\* statement, so the root list has been replaced when the listener runs
ListenerReads(rootsBefore, rootsAfter) == rootsAfter

\* a setCompareContext that ends without firing the notification
ResumeSetCompareContext_NoFire(ctx, gitResult) ==
    /\ inflight[ctx] > 0
    /\ fireCount < MaxFires
    /\ GitCanPrint(ctx, gitResult)
    /\ LET files == FetchedRecords(ctx, gitResult)
           built == BuildTreeStructure(compareContext, files, rootItems, heap, fireCount + 1)
       IN /\ changedFiles' = files
          /\ rootItems' = built.roots
          /\ heap' = built.heap
    /\ inflight' = [inflight EXCEPT ![ctx] = @ - 1]
    /\ fetched' = Some([ctx |-> ctx, git |-> gitResult])
    /\ reply' = Reply("resolved", <<AwaitedCall, fetched = Some([ctx |-> ctx, git |-> gitResult])>>)
    /\ UNCHANGED <<compareContext, cleared, fireCount, notified, cmd>>

\* setCompareContext from its await on: git has answered.  The reply tells the
\* call that is resolved, and whether git answered as for the records held.
ResumeSetCompareContext(ctx, gitResult) ==
    /\ inflight[ctx] > 0
    /\ fireCount < MaxFires
    /\ GitCanPrint(ctx, gitResult)
    /\ LET files == FetchedRecords(ctx, gitResult)
           built == BuildTreeStructure(compareContext, files, rootItems, heap, fireCount + 1)
       IN /\ changedFiles' = files
          /\ rootItems' = built.roots
          /\ heap' = built.heap
          /\ notified' = ListenerReads(rootItems, built.roots)
    /\ fireCount' = fireCount + 1
    /\ inflight' = [inflight EXCEPT ![ctx] = @ - 1]
    /\ fetched' = Some([ctx |-> ctx, git |-> gitResult])
    /\ reply' = Reply("resolved", <<AwaitedCall, fetched = Some([ctx |-> ctx, git |-> gitResult])>>)
    /\ UNCHANGED <<compareContext, cleared, cmd>>

\* a clear() that leaves the context in place
Clear_KeepContext ==
    /\ fireCount < MaxFires
    /\ changedFiles' = <<>>
    /\ rootItems' = <<>>
    /\ heap' = EmptyHeap
    /\ notified' = ListenerReads(rootItems, <<>>)
    /\ fireCount' = fireCount + 1
    /\ fetched' = None
    /\ cleared' = TRUE
    /\ reply' = Reply("clear", None)
    /\ UNCHANGED <<compareContext, inflight, cmd>>

Clear ==
    /\ fireCount < MaxFires
    /\ compareContext' = None
    /\ changedFiles' = <<>>
    /\ rootItems' = <<>>
    /\ heap' = EmptyHeap
    /\ notified' = ListenerReads(rootItems, <<>>)
    /\ fireCount' = fireCount + 1
    /\ fetched' = None
    /\ cleared' = TRUE
    /\ reply' = Reply("clear", None)
    /\ UNCHANGED <<inflight, cmd>>

\* a refresh() that rebuilds and notifies even without a context
Refresh_Unguarded ==
    IF IsSome(compareContext)
    THEN StartSetCompareContext(compareContext[1], "refresh") /\ UNCHANGED cmd
    ELSE /\ fireCount < MaxFires
         /\ fireCount' = fireCount + 1
         /\ reply' = Reply("refresh", Some("done"))
         /\ UNCHANGED <<provider, inflight, notified, fetched, cleared, cmd>>

Refresh ==
    IF IsSome(compareContext)
    THEN StartSetCompareContext(compareContext[1], "refresh") /\ UNCHANGED cmd
    ELSE /\ reply' = Reply("refresh", Some("done"))
         /\ UNCHANGED <<provider, inflight, fireCount, notified, fetched, cleared, cmd>>

\* the value getChildren(element) returns
GetChildrenValue(element) ==
    IF ~IsSome(compareContext) THEN <<>>
    ELSE IF ~IsSome(element) THEN rootItems
    ELSE heap[element[1]].children

\* a getChildren that builds the tree anew before it answers
GetChildren_Rebuilding(element) ==
    LET built == BuildTreeStructure(compareContext, changedFiles, rootItems, heap, fireCount + 1)
    IN /\ rootItems' = built.roots
       /\ heap' = built.heap
       /\ reply' = Reply("getChildren", GetChildrenValue(element))
       /\ UNCHANGED <<compareContext, changedFiles, inflight, fireCount, notified, fetched, cleared, cmd>>

GetChildren(element) ==
    /\ reply' = Reply("getChildren", GetChildrenValue(element))
    /\ UNCHANGED <<provider, inflight, fireCount, notified, fetched, cleared, cmd>>

GetParent(element) ==
    /\ reply' = Reply("getParent", heap[element].parent)
    /\ UNCHANGED <<provider, inflight, fireCount, notified, fetched, cleared, cmd>>

GetTreeItem(element) ==
    /\ reply' = Reply("getTreeItem", Some(element))
    /\ UNCHANGED <<provider, inflight, fireCount, notified, fetched, cleared, cmd>>

\* the operations that change the provider, git answering from `results`
Operations(results) ==
    \/ \E ctx \in Contexts : SetCompareContext(ctx)
    \/ \E ctx \in Contexts, gitResult \in results : ResumeSetCompareContext(ctx, gitResult)
    \/ Clear
    \/ Refresh

\* the operations the tree view calls to pull the tree
Queries ==
    \/ \E element \in {None} \cup {Some(id) : id \in DOMAIN heap} : GetChildren(element)
    \/ \E element \in DOMAIN heap : GetParent(element)
    \/ \E element \in DOMAIN heap : GetTreeItem(element)

Next == Operations(ProtocolGitResults)

Spec == Init /\ [][Next]_vars

(***************************************************************************)
(* The provider together with the tree view that pulls from it.            *)
(***************************************************************************)
NextHost == Operations(HostGitResults) \/ Queries

SpecHost == Init /\ [][NextHost]_vars

(***************************************************************************)
(* The tree builder on its own: one setCompareContext call is suspended at *)
(* its await in an empty provider, and git answers with any output.        *)
(***************************************************************************)
InitBuild ==
    \E ctx \in Contexts :
        /\ cmd = NoCommand
        /\ compareContext = Some(ctx)
        /\ changedFiles = <<>>
        /\ rootItems = <<>>
        /\ heap = EmptyHeap
        /\ inflight = [c \in Contexts |-> IF c = ctx THEN 1 ELSE 0]
        /\ fireCount = 0
        /\ notified = <<>>
        /\ fetched = None
        /\ cleared = FALSE
        /\ reply = Reply("setCompareContext", Some("pending"))

NextBuild ==
    \E ctx \in Contexts, gitResult \in BuilderGitResults :
        ResumeSetCompareContext(ctx, gitResult)

SpecBuild == InitBuild /\ [][NextBuild]_vars

(***************************************************************************)
(* The tree builder on record collections in every order: the same lines   *)
(* in any order git may print them.  A/o sorts between a/b/y and a/x, so   *)
(* the records of folder a are not adjacent in sorted order; A/x and a/x   *)
(* differ in case only.                                                    *)
(***************************************************************************)
P_Ao == <<"A", SLASH, "o">>

P_Ax == <<"A", SLASH, "x">>

L_M_Ao == Line(<<<<"M">>, P_Ao>>)

L_M_Ax == Line(<<<<"M">>, P_Ax>>)

OrderLines == {L_A_aby, L_M_Ao, L_M_ax, L_M_Ax, L_D_t, L_A_da}

NextOrder ==
    \E ctx \in Contexts, gitResult \in GitResults(OrderLines) :
        ResumeSetCompareContext(ctx, gitResult)

SpecOrder == InitBuild /\ [][NextOrder]_vars

(***************************************************************************)
(* buildTreeStructure on any record collection: the provider holds a       *)
(* context and, as changedFiles, any records with string paths - the empty *)
(* path, paths without a slash, with a leading or a doubled slash, a path  *)
(* that is also a folder of another, and the same path twice.              *)
(***************************************************************************)
TotalPaths ==
    {<<>>, P_t, P_a, P_ax, P_aby, <<SLASH, "t">>, <<"a", SLASH, SLASH, "x">>}

TotalRecords ==
    {[status |-> "M", path |-> p, oldPath |-> None] : p \in TotalPaths}
        \cup {[status |-> "D", path |-> P_t, oldPath |-> None]}

InitTotal ==
    \E ctx \in Contexts, n \in 0..MaxLines :
        \E files \in [1..n -> TotalRecords] :
            /\ cmd = NoCommand
            /\ compareContext = Some(ctx)
            /\ changedFiles = files
            /\ rootItems = <<>>
            /\ heap = EmptyHeap
            /\ inflight = [c \in Contexts |-> 0]
            /\ fireCount = 0
            /\ notified = <<>>
            /\ fetched = None
            /\ cleared = FALSE
            /\ reply = Reply("changedFiles", None)

\* this.buildTreeStructure()
CallBuildTreeStructure ==
    /\ reply.op = "changedFiles"
    /\ LET built == BuildTreeStructure(compareContext, changedFiles, rootItems, heap, fireCount + 1)
       IN /\ rootItems' = built.roots
          /\ heap' = built.heap
    /\ reply' = Reply("buildTreeStructure", None)
    /\ UNCHANGED <<compareContext, changedFiles, inflight, fireCount, notified, fetched,
                   cleared, cmd>>

NextTotal == CallBuildTreeStructure

SpecTotal == InitTotal /\ [][NextTotal]_vars

(***************************************************************************)
(* getBranchesAndTags and the quick pick of compareWithBranch and          *)
(* rebaseOnto.  git prints one ref name a line; what git prints for the    *)
(* three listings is [branch, remote, tag], each None when that git call   *)
(* fails.  Names are printed without surrounding blanks.                   *)
(***************************************************************************)
LocalNames == {"main", "dev"}

RemoteNames == {"origin/main", "origin/HEAD"}

TagNames == {"v1", "main"}

\* b.includes('HEAD')
IncludesHEAD(name) == name \in {"origin/HEAD"}

\* .filter(b => b.trim() ...).forEach(name => refs.push({name, type}))
RECURSIVE RefsFromLines(_, _)
RefsFromLines(lines, type) ==
    IF lines = <<>> THEN <<>>
    ELSE LET name == Head(lines)
             kept == name # "" /\ (type = "remote" => ~IncludesHEAD(name))
         IN (IF kept THEN <<[name |-> name, type |-> type]>> ELSE <<>>)
                \o RefsFromLines(Tail(lines), type)

\* the refs pushed before the first failing git call are returned
GetBranchesAndTags(git) ==
    IF ~IsSome(git.branch) THEN <<>>
    ELSE LET branches == RefsFromLines(git.branch[1], "branch")
         IN IF ~IsSome(git.remote) THEN branches
            ELSE LET remotes == RefsFromLines(git.remote[1], "remote")
                 IN IF ~IsSome(git.tag) THEN branches \o remotes
                    ELSE branches \o remotes \o RefsFromLines(git.tag[1], "tag")

GetIcon(type) ==
    CASE type = "branch" -> "$(git-branch)"
      [] type = "remote" -> "$(cloud)"
      [] type = "tag"    -> "$(tag)"

GetLabel(type) ==
    CASE type = "branch" -> "Local Branch"
      [] type = "remote" -> "Remote Branch"
      [] type = "tag"    -> "Tag"

\* a quick-pick item: a separator, or an entry that carries its ref
Separator(label) ==
    [kind |-> "separator", label |-> <<label>>, description |-> "", ref |-> None]

Entry(ref) ==
    [kind |-> "entry", label |-> <<GetIcon(ref.type), ref.name>>,
     description |-> GetLabel(ref.type), ref |-> Some(ref)]

\* if (group.length > 0) { push the separator; push every entry }
Group(label, group) ==
    IF Len(group) > 0
    THEN <<Separator(label)>> \o [i \in DOMAIN group |-> Entry(group[i])]
    ELSE <<>>

\* the three blocks in the order of the source text
QuickPickItems(branches, remotes, tags) ==
    Group("Local Branches", branches) \o Group("Remote Branches", remotes)
        \o Group("Tags", tags)

OfType(refs, type) == SelectSeq(refs, LAMBDA r : r.type = type)

\* the items of compareWithBranch
CompareItems(refs) ==
    QuickPickItems(OfType(refs, "branch"), OfType(refs, "remote"), OfType(refs, "tag"))

\* a rebaseOnto that offers every local branch
RebaseItems_AllBranches(refs, currentBranch) == CompareItems(refs)

\* the items of rebaseOnto: the current branch is filtered out
RebaseItems(refs, currentBranch) ==
    QuickPickItems(SelectSeq(refs, LAMBDA r : r.type = "branch" /\ r.name # currentBranch),
                   OfType(refs, "remote"), OfType(refs, "tag"))

\* what git can print for one listing: distinct names, in any order, or failure
RECURSIVE Orderings(_)
Orderings(names) ==
    IF names = {} THEN {<<>>}
    ELSE UNION {{<<n>> \o rest : rest \in Orderings(names \ {n})} : n \in names}

Listings(names) ==
    {None} \cup {Some(o) : o \in UNION {Orderings(sub) : sub \in SUBSET names}}

GitRefListings ==
    [branch : Listings(LocalNames), remote : Listings(RemoteNames), tag : Listings(TagNames)]

(***************************************************************************)
(* The rebaseOnto command.  cmd.pc is the await the handler is suspended   *)
(* at; every action is the code from one await to the next, with what the  *)
(* awaited call answered as its input.  cmd.log lists the checks passed,   *)
(* cmd.git the git commands that change the repository, cmd.shown the      *)
(* messages shown.                                                         *)
(***************************************************************************)
\* most files git reports as conflicting
MaxConflicts == 4

\* conflicts.slice(0, 3)
OpenLimit == 3

StartCommand(name) ==
    [name |-> name, pc |-> "start", log |-> <<>>, git |-> <<>>, shown |-> <<>>,
     opened |-> 0, branch |-> "", items |-> <<>>, target |-> "", inProgress |-> "none",
     rel |-> <<>>, isDirectory |-> FALSE, diffs |-> 0, calls |-> <<>>, item |-> None]

Finished == {"idle", "returned", "threw"}

\* the handler goes on to the await `pc`, having passed `check`
Passed(c, check, pc) == [c EXCEPT !.log = Append(@, check), !.pc = pc]

\* the handler shows a message and returns
ShowAndReturn(c, message) == [c EXCEPT !.shown = Append(@, message), !.pc = "returned"]

Return(c) == [c EXCEPT !.pc = "returned"]

\* an exception leaves the handler: the command's promise is rejected
Throw(c) == [c EXCEPT !.pc = "threw"]

\* every provider variable: the rebase command touches none of them
providerVars == <<compareContext, changedFiles, rootItems, heap, inflight, fireCount,
                  notified, fetched, cleared, reply>>

\* lines 140-160: the target path, up to `await getRepoRoot`
RebaseOnto(uri) ==
    /\ cmd.pc \in Finished
    /\ cmd' = IF uri = "none"
              THEN ShowAndReturn(StartCommand("rebaseOnto"), "No workspace folder open")
              ELSE [StartCommand("rebaseOnto") EXCEPT !.pc = "getRepoRoot"]
    /\ UNCHANGED providerVars

\* lines 160-167
RebaseGotRepoRoot(ok) ==
    /\ cmd.name = "rebaseOnto" /\ cmd.pc = "getRepoRoot"
    /\ cmd' = IF ok THEN Passed(cmd, "repoRoot", "getCurrentBranch")
              ELSE ShowAndReturn(cmd, "Not a Git repository")
    /\ UNCHANGED providerVars

\* lines 167-174: getCurrentBranch answers a branch name, or null (None)
RebaseGotCurrentBranch(currentBranch) ==
    /\ cmd.name = "rebaseOnto" /\ cmd.pc = "getCurrentBranch"
    /\ cmd' = IF IsSome(currentBranch) /\ currentBranch[1] # ""
              THEN [Passed(cmd, "onBranch", "isRebaseInProgress") EXCEPT !.branch = currentBranch[1]]
              ELSE ShowAndReturn(cmd, "Cannot rebase: you are in detached HEAD state")
    /\ UNCHANGED providerVars

(***************************************************************************)
(* isRebaseInProgress.  Paths are sequences of segments, "" first when     *)
(* absolute.  A repository is [state, linked, gitOk]: state names the      *)
(* directory of a rebase in progress ("none" without one), linked says the *)
(* working tree is a linked one (git worktree add), whose git directory    *)
(* lies in the main repository and for which `git rev-parse --git-path`    *)
(* prints absolute paths; gitOk says the git calls succeed.                *)
(***************************************************************************)
WorktreeRoot == <<"", "r">>

GitDir(repo) ==
    IF repo.linked THEN <<"", "m", ".git", "worktrees", "w">> ELSE WorktreeRoot \o <<".git">>

\* stdout of `git rev-parse --git-path <name>` run in the worktree root
GitPath(repo, name) ==
    IF repo.linked THEN GitDir(repo) \o <<name>> ELSE <<".git", name>>

\* path.join(a, b): the segments of both, empty segments of b dropped
PathJoin(a, b) == a \o SelectSeq(b, LAMBDA segment : segment # "")

\* fs.existsSync
ExistsSync(repo, path) == repo.state # "none" /\ path = GitDir(repo) \o <<repo.state>>

IsRebaseInProgress(repo) ==
    IF ~repo.gitOk THEN FALSE
    ELSE IF ExistsSync(repo, PathJoin(WorktreeRoot, GitPath(repo, "rebase-merge"))) THEN TRUE
    ELSE ExistsSync(repo, PathJoin(WorktreeRoot, GitPath(repo, "rebase-apply")))

Repositories ==
    [state : {"none", "rebase-merge", "rebase-apply"}, linked : BOOLEAN, gitOk : BOOLEAN]

\* lines 174-181; cmd.inProgress keeps what the repository's state was
RebaseGotInProgress(repo) ==
    /\ cmd.name = "rebaseOnto" /\ cmd.pc = "isRebaseInProgress"
    /\ LET c == [cmd EXCEPT !.inProgress = repo.state]
       IN cmd' = IF IsRebaseInProgress(repo)
                 THEN [c EXCEPT !.log = Append(@, "rebaseInProgress"), !.pc = "askInProgress"]
                 ELSE Passed(c, "noRebaseInProgress", "isWorkingTreeClean")
    /\ UNCHANGED providerVars

\* lines 182-199: the answer to 'A rebase is already in progress.'
RebaseAnsweredInProgress(action) ==
    /\ cmd.name = "rebaseOnto" /\ cmd.pc = "askInProgress"
    /\ cmd' = CASE action = "Abort Rebase"    -> [cmd EXCEPT !.pc = "rebaseAbort"]
                [] action = "Continue Rebase" -> [cmd EXCEPT !.pc = "rebaseContinue"]
                [] OTHER                      -> Return(cmd)
    /\ UNCHANGED providerVars

\* gitService.rebaseAbort: Promise<void>.  The await of `git rebase --abort`
\* is not in a try block: a failure is thrown on, a success returns undefined
RebaseAbort(gitOk) ==
    IF gitOk THEN [thrown |-> FALSE, value |-> None]
    ELSE [thrown |-> TRUE, value |-> None]

RebaseContinue(gitOk) == [thrown |-> FALSE, value |-> Some([success |-> gitOk])]

Rebase(gitOk) == [thrown |-> FALSE, value |-> Some([success |-> gitOk])]

\* lines 184-189 and 347-352: `abortResult.success` on undefined is a TypeError
RebaseAbortDone(gitOk) ==
    /\ cmd.name = "rebaseOnto" /\ cmd.pc = "rebaseAbort"
    /\ LET abortResult == RebaseAbort(gitOk)
           ran         == [cmd EXCEPT !.git = Append(@, <<"rebase", "--abort">>)]
       IN cmd' = IF abortResult.thrown \/ ~IsSome(abortResult.value) THEN Throw(ran)
                 ELSE IF abortResult.value[1].success THEN ShowAndReturn(ran, "Rebase aborted")
                 ELSE ShowAndReturn(ran, "Rebase abort failed")
    /\ UNCHANGED providerVars

\* lines 192-199
RebaseContinueDone(gitOk) ==
    /\ cmd.name = "rebaseOnto" /\ cmd.pc = "rebaseContinue"
    /\ LET result == RebaseContinue(gitOk)
           ran    == [cmd EXCEPT !.git = Append(@, <<"rebase", "--continue">>)]
       IN cmd' = IF result.value[1].success
                 THEN ShowAndReturn(ran, "Rebase completed successfully")
                 ELSE ShowAndReturn(ran, "Rebase continue failed")
    /\ UNCHANGED providerVars

\* lines 203-212
RebaseGotClean(isClean) ==
    /\ cmd.name = "rebaseOnto" /\ cmd.pc = "isWorkingTreeClean"
    /\ cmd' = IF isClean THEN Passed(cmd, "clean", "getBranchesAndTags")
              ELSE ShowAndReturn(cmd, "Cannot rebase: working tree has uncommitted changes")
    /\ UNCHANGED providerVars

\* lines 212-286: the refs arrive and the quick pick is shown
RebaseGotRefs(git) ==
    /\ cmd.name = "rebaseOnto" /\ cmd.pc = "getBranchesAndTags"
    /\ LET refs == GetBranchesAndTags(git)
       IN cmd' = IF Len(refs) = 0 THEN ShowAndReturn(cmd, "No branches or tags found")
                 ELSE [cmd EXCEPT !.items = RebaseItems(refs, cmd.branch), !.pc = "showQuickPick"]
    /\ UNCHANGED providerVars

\* lines 286-299: `selected` is undefined (None) or an item of the list
RebasePicked(selected) ==
    /\ cmd.name = "rebaseOnto" /\ cmd.pc = "showQuickPick"
    /\ IsSome(selected) => \E i \in DOMAIN cmd.items : cmd.items[i] = selected[1]
    /\ cmd' = IF ~IsSome(selected) \/ ~IsSome(selected[1].ref) THEN Return(cmd)
              ELSE [Passed(cmd, "picked", "confirm") EXCEPT !.target = selected[1].ref[1].name]
    /\ UNCHANGED providerVars

\* lines 299-310: the answer to the modal confirmation
RebaseConfirmed(confirm) ==
    /\ cmd.name = "rebaseOnto" /\ cmd.pc = "confirm"
    /\ cmd' = IF confirm # "Rebase" THEN Return(cmd)
              ELSE Passed(cmd, "confirmed", "rebase")
    /\ UNCHANGED providerVars

\* lines 310-325: `git rebase <targetRef>` has run
RebaseDone(gitOk) ==
    /\ cmd.name = "rebaseOnto" /\ cmd.pc = "rebase"
    /\ LET result == Rebase(gitOk)
           ran    == [cmd EXCEPT !.git = Append(@, <<"rebase", cmd.target>>)]
       IN cmd' = IF result.value[1].success THEN ShowAndReturn(ran, "Successfully rebased")
                 ELSE [ran EXCEPT !.pc = "getConflictFiles"]
    /\ UNCHANGED providerVars

\* lines 325-334 and 354-356
RebaseGotConflicts(conflicts) ==
    /\ cmd.name = "rebaseOnto" /\ cmd.pc = "getConflictFiles"
    /\ cmd' = IF conflicts > 0
              THEN [cmd EXCEPT !.opened = conflicts, !.pc = "askConflicts"]
              ELSE ShowAndReturn(cmd, "Rebase failed")
    /\ UNCHANGED providerVars

\* lines 335-353: the answer to 'Rebase stopped due to conflicts'; cmd.opened
\* holds the number of conflicting files, then the number of files opened
RebaseAnsweredConflicts(action) ==
    /\ cmd.name = "rebaseOnto" /\ cmd.pc = "askConflicts"
    /\ cmd' = CASE action = "Open Conflicting Files" ->
                     ShowAndReturn([cmd EXCEPT !.opened = IF @ > OpenLimit THEN OpenLimit ELSE @],
                                   "Resolve conflicts and run Git: Continue Rebase")
                [] action = "Abort Rebase" -> [cmd EXCEPT !.opened = 0, !.pc = "rebaseAbort"]
                [] OTHER -> Return([cmd EXCEPT !.opened = 0])
    /\ UNCHANGED providerVars

UriKinds == {"file", "workspace", "none"}

Answers == {"Abort Rebase", "Continue Rebase", "Open Conflicting Files", "Rebase", "dismissed"}

CurrentBranches == {None} \cup {Some(n) : n \in LocalNames}

PickableItems ==
    {Separator(l) : l \in {"Local Branches", "Remote Branches", "Tags"}}
        \cup {Entry([name |-> n, type |-> "branch"]) : n \in LocalNames}
        \cup {Entry([name |-> n, type |-> "remote"]) : n \in RemoteNames}
        \cup {Entry([name |-> n, type |-> "tag"]) : n \in TagNames}

NextRebase ==
    \/ \E uri \in UriKinds : RebaseOnto(uri)
    \/ \E ok \in BOOLEAN : RebaseGotRepoRoot(ok)
    \/ \E currentBranch \in CurrentBranches : RebaseGotCurrentBranch(currentBranch)
    \/ \E repo \in Repositories : RebaseGotInProgress(repo)
    \/ \E action \in Answers : RebaseAnsweredInProgress(action)
    \/ \E gitOk \in BOOLEAN : RebaseAbortDone(gitOk)
    \/ \E gitOk \in BOOLEAN : RebaseContinueDone(gitOk)
    \/ \E isClean \in BOOLEAN : RebaseGotClean(isClean)
    \/ \E git \in GitRefListings : RebaseGotRefs(git)
    \/ \E selected \in {None} \cup {Some(item) : item \in PickableItems} : RebasePicked(selected)
    \/ \E confirm \in Answers : RebaseConfirmed(confirm)
    \/ \E gitOk \in BOOLEAN : RebaseDone(gitOk)
    \/ \E conflicts \in 0..MaxConflicts : RebaseGotConflicts(conflicts)
    \/ \E action \in Answers : RebaseAnsweredConflicts(action)

SpecRebase == Init /\ [][NextRebase]_vars

(***************************************************************************)
(* getFileHistory and getDirectoryHistory.  git log prints one line a      *)
(* commit in the format %H|%h|%s|%an|%ad; a commit is what git knows of    *)
(* it: hash, short hash, subject, author and date, each a string.          *)
(***************************************************************************)
PIPE == "|"

\* longest subject, in characters, and longest history, in commits
MaxSubject == 3

MaxCommits == 2

RECURSIVE StringsOver(_, _)
StringsOver(chars, n) ==
    IF n = 0 THEN {<<>>}
    ELSE StringsOver(chars, n - 1)
            \cup {Append(w, c) : w \in StringsOver(chars, n - 1), c \in chars}

Subjects == StringsOver({"x", PIPE}, MaxSubject)

Commits ==
    {[hash |-> <<"a", "1", "c", "0">>, shortHash |-> <<"a", "1">>, subject |-> subject,
      author |-> <<"m", "o">>, date |-> <<"2", "0", "2", "6">>] : subject \in Subjects}

Histories == UNION {[1..n -> Commits] : n \in 0..MaxCommits}

\* --pretty=format:%H|%h|%s|%an|%ad
PrettyLine(commit) ==
    Join(<<commit.hash, commit.shortHash, commit.subject, commit.author, commit.date>>, PIPE)

\* what `git log` answers for a history; ok = FALSE when execFile rejects
GitLog(history, gitOk) ==
    [ok |-> gitOk,
     stdout |-> IF gitOk THEN [i \in DOMAIN history |-> PrettyLine(history[i])] ELSE <<>>]

\* const [hash, shortHash, message, author, date] = line.split('|'): the line
\* has four separators at least, so the five names are all bound
CommitInfo(line) ==
    LET parts == Split(line, PIPE)
    IN [hash |-> parts[1], shortHash |-> parts[2], message |-> parts[3],
        author |-> parts[4], date |-> parts[5]]

\* the body both functions share: [] on failure and on empty output
ParseHistory(gitResult) ==
    IF ~gitResult.ok THEN <<>>
    ELSE IF gitResult.stdout = <<>> THEN <<>>
    ELSE [i \in DOMAIN gitResult.stdout |-> CommitInfo(gitResult.stdout[i])]

\* the provider as constructed, no command running
Activated ==
    /\ cmd = NoCommand
    /\ compareContext = None
    /\ changedFiles = <<>>
    /\ rootItems = <<>>
    /\ heap = EmptyHeap
    /\ inflight = [c \in Contexts |-> 0]
    /\ fireCount = 0
    /\ notified = <<>>
    /\ fetched = None
    /\ cleared = FALSE

\* a repository with some history, on which git log succeeds or fails
InitHistory ==
    /\ Activated
    /\ \E history \in Histories, gitOk \in BOOLEAN :
          reply = Reply("git log", [history |-> history, ok |-> gitOk])

GetFileHistory ==
    /\ reply.op = "git log"
    /\ reply' = Reply("getFileHistory",
                      [history |-> reply.value.history, ok |-> reply.value.ok,
                       commits |-> ParseHistory(GitLog(reply.value.history, reply.value.ok))])
    /\ UNCHANGED <<provider, inflight, fireCount, notified, fetched, cleared, cmd>>

GetDirectoryHistory ==
    /\ reply.op = "git log"
    /\ reply' = Reply("getDirectoryHistory",
                      [history |-> reply.value.history, ok |-> reply.value.ok,
                       commits |-> ParseHistory(GitLog(reply.value.history, reply.value.ok))])
    /\ UNCHANGED <<provider, inflight, fireCount, notified, fetched, cleared, cmd>>

NextHistory == GetFileHistory \/ GetDirectoryHistory

SpecHistory == InitHistory /\ [][NextHistory]_vars

(***************************************************************************)
(* The compareWithRevision and compareWithBranch commands.  cmd.rel is the *)
(* target's path below the repository root, cmd.diffs counts the           *)
(* vscode.diff commands executed, cmd.calls lists the contexts handed to   *)
(* setCompareContext.  A directory target suspends the handler at          *)
(* `await setCompareContext`; the provider resumes the call, then the      *)
(* handler goes on.                                                        *)
(***************************************************************************)
\* the uri a command is run on: none, one of another scheme, or a file uri
\* whose path fs.statSync finds missing, a file or a directory
CompareUris ==
    {[scheme |-> "none", stat |-> "missing", rel |-> <<>>],
     [scheme |-> "untitled", stat |-> "missing", rel |-> P_t],
     [scheme |-> "file", stat |-> "missing", rel |-> P_t],
     [scheme |-> "file", stat |-> "file", rel |-> P_ax],
     [scheme |-> "file", stat |-> "directory", rel |-> <<>>],
     [scheme |-> "file", stat |-> "directory", rel |-> P_a]}

\* lines 12-37 of both handlers: the uri, statSync, up to `await getRepoRoot`
CompareTarget(name, uri) ==
    IF uri.scheme # "file"
    THEN ShowAndReturn(StartCommand(name), "Please select a file or folder to compare")
    ELSE IF uri.stat = "missing" THEN ShowAndReturn(StartCommand(name), "Cannot access")
    ELSE [StartCommand(name) EXCEPT !.rel = uri.rel, !.isDirectory = (uri.stat = "directory"),
                                    !.pc = "getRepoRoot"]

\* the directory branch up to `await setCompareContext(context)`; the provider
\* counts suspended calls for Contexts, the contexts a pick may give here
PopulatePanel(ctx) ==
    /\ ctx \in Contexts
    /\ StartSetCompareContext(ctx, "setCompareContext")
    /\ cmd' = [Passed(cmd, "picked", "setCompareContext") EXCEPT !.calls = Append(@, ctx)]

\* the awaited setCompareContext call of the handler has resolved
SetCompareContextResolved ==
    /\ cmd.pc = "setCompareContext"
    /\ inflight[cmd.calls[Len(cmd.calls)]] = 0

\* after the await: the focus command, then the information message
FocusPanel(c, focusOk) ==
    IF focusOk THEN ShowAndReturn(c, "See Changes panel.") ELSE Throw(c)

\* the history a command reads: nothing, or one commit
PickedCommit ==
    [hash |-> "3f2a91c04e", shortHash |-> "3f2a91c", message |-> "fix", author |-> "mo",
     date |-> "2026"]

CommandHistories == {<<>>, <<PickedCommit>>}

RevisionItem(commit) ==
    [label |-> <<"$(git-commit)", commit.shortHash>>, description |-> commit.message,
     detail |-> <<commit.author, commit.date>>, commit |-> commit]

CompareWithRevision(uri) ==
    /\ cmd.pc \in Finished
    /\ cmd' = CompareTarget("compareWithRevision", uri)
    /\ UNCHANGED providerVars

\* lines 35-41
RevisionGotRepoRoot(ok) ==
    /\ cmd.name = "compareWithRevision" /\ cmd.pc = "getRepoRoot"
    /\ cmd' = IF ok THEN Passed(cmd, "repoRoot", "withProgress")
              ELSE ShowAndReturn(cmd, "Not a Git repository")
    /\ UNCHANGED providerVars

\* lines 44-86: isFileTracked and the history, up to `await showQuickPick`
RevisionGotHistory(tracked, history) ==
    /\ cmd.name = "compareWithRevision" /\ cmd.pc = "withProgress"
    /\ LET commits == IF cmd.isDirectory THEN history
                      ELSE IF ~tracked THEN <<>> ELSE history
       IN cmd' = IF Len(commits) = 0
                 THEN IF cmd.isDirectory THEN ShowAndReturn(cmd, "No commit history found")
                      ELSE ShowAndReturn(cmd, "is not tracked by Git or has no history")
                 ELSE [Passed(cmd, "history", "showQuickPick")
                          EXCEPT !.items = [i \in DOMAIN commits |-> RevisionItem(commits[i])]]
    /\ UNCHANGED providerVars

\* lines 88-119; vscode.diff is awaited outside any try: its rejection leaves
\* the handler
RevisionPicked(selected, diffOk) ==
    /\ cmd.name = "compareWithRevision" /\ cmd.pc = "showQuickPick"
    /\ IF ~IsSome(selected) THEN cmd' = Return(cmd) /\ UNCHANGED providerVars
       ELSE LET commit == selected[1].commit
            IN IF cmd.isDirectory
               THEN PopulatePanel(CompareContext(cmd.rel, commit.hash, commit.shortHash, TRUE))
               ELSE /\ cmd' = [(IF diffOk THEN Return(Passed(cmd, "picked", "returned"))
                                ELSE Throw(Passed(cmd, "picked", "threw")))
                                  EXCEPT !.diffs = @ + 1]
                    /\ UNCHANGED providerVars

\* lines 106-113
RevisionSetResolved(focusOk) ==
    /\ cmd.name = "compareWithRevision"
    /\ SetCompareContextResolved
    /\ cmd' = FocusPanel(cmd, focusOk)
    /\ UNCHANGED providerVars

CompareWithBranch(uri) ==
    /\ cmd.pc \in Finished
    /\ cmd' = CompareTarget("compareWithBranch", uri)
    /\ UNCHANGED providerVars

\* lines 35-45: for a file isFileTracked is awaited next, else the ref listing
BranchGotRepoRoot(ok) ==
    /\ cmd.name = "compareWithBranch" /\ cmd.pc = "getRepoRoot"
    /\ cmd' = IF ~ok THEN ShowAndReturn(cmd, "Not a Git repository")
              ELSE IF cmd.isDirectory THEN Passed(cmd, "repoRoot", "getBranchesAndTags")
              ELSE Passed(cmd, "repoRoot", "isFileTracked")
    /\ UNCHANGED providerVars

\* lines 45-50
BranchGotTracked(tracked) ==
    /\ cmd.name = "compareWithBranch" /\ cmd.pc = "isFileTracked"
    /\ cmd' = IF tracked THEN Passed(cmd, "tracked", "getBranchesAndTags")
              ELSE ShowAndReturn(cmd, "is not tracked by Git")
    /\ UNCHANGED providerVars

\* lines 53-130
BranchGotRefs(git) ==
    /\ cmd.name = "compareWithBranch" /\ cmd.pc = "getBranchesAndTags"
    /\ LET refs == GetBranchesAndTags(git)
       IN cmd' = IF Len(refs) = 0 THEN ShowAndReturn(cmd, "No branches or tags found")
                 ELSE [Passed(cmd, "refs", "showQuickPick") EXCEPT !.items = CompareItems(refs)]
    /\ UNCHANGED providerVars

\* a handler that shows a file's comparison in the Changes panel as well
BranchPicked_PanelForFiles(selected, diffOk) ==
    /\ cmd.name = "compareWithBranch" /\ cmd.pc = "showQuickPick"
    /\ IF ~IsSome(selected) \/ ~IsSome(selected[1].ref)
       THEN cmd' = Return(cmd) /\ UNCHANGED providerVars
       ELSE LET ref == selected[1].ref[1]
            IN PopulatePanel(CompareContext(cmd.rel, ref.name, ref.name, cmd.isDirectory))

\* lines 132-169; a rejected vscode.diff is caught and reported
BranchPicked(selected, diffOk) ==
    /\ cmd.name = "compareWithBranch" /\ cmd.pc = "showQuickPick"
    /\ IF ~IsSome(selected) \/ ~IsSome(selected[1].ref)
       THEN cmd' = Return(cmd) /\ UNCHANGED providerVars
       ELSE LET ref == selected[1].ref[1]
            IN IF cmd.isDirectory
               THEN PopulatePanel(CompareContext(cmd.rel, ref.name, ref.name, TRUE))
               ELSE /\ cmd' = [(IF diffOk THEN Return(Passed(cmd, "picked", "returned"))
                                ELSE ShowAndReturn(Passed(cmd, "picked", "returned"),
                                                   "Failed to compare"))
                                  EXCEPT !.diffs = @ + 1]
                    /\ UNCHANGED providerVars

\* lines 150-157
BranchSetResolved(focusOk) ==
    /\ cmd.name = "compareWithBranch"
    /\ SetCompareContextResolved
    /\ cmd' = FocusPanel(cmd, focusOk)
    /\ UNCHANGED providerVars

\* what showQuickPick resolves to: undefined, or one of the items shown
Picks(items) == {None} \cup {Some(items[i]) : i \in DOMAIN items}

\* the items of the quick pick that is open
ShownItems == IF cmd.pc = "showQuickPick" THEN cmd.items ELSE <<>>

NextCompare ==
    \/ \E uri \in CompareUris : CompareWithRevision(uri)
    \/ \E ok \in BOOLEAN : RevisionGotRepoRoot(ok)
    \/ \E tracked \in BOOLEAN, history \in CommandHistories : RevisionGotHistory(tracked, history)
    \/ \E selected \in Picks(ShownItems), diffOk \in BOOLEAN : RevisionPicked(selected, diffOk)
    \/ \E focusOk \in BOOLEAN : RevisionSetResolved(focusOk)
    \/ \E uri \in CompareUris : CompareWithBranch(uri)
    \/ \E ok \in BOOLEAN : BranchGotRepoRoot(ok)
    \/ \E tracked \in BOOLEAN : BranchGotTracked(tracked)
    \/ \E git \in GitRefListings : BranchGotRefs(git)
    \/ \E selected \in Picks(ShownItems), diffOk \in BOOLEAN : BranchPicked(selected, diffOk)
    \/ \E focusOk \in BOOLEAN : BranchSetResolved(focusOk)

\* what git answers to the diff a command's setCompareContext starts
CommandGitResults == {GitFailure, [ok |-> TRUE, stdout |-> <<L_M_ax>>]}

\* the commands with the provider they populate
NextCommands ==
    \/ NextCompare
    \/ NextRebase
    \/ \E ctx \in Contexts, gitResult \in CommandGitResults :
          ResumeSetCompareContext(ctx, gitResult)

SpecCommands == Init /\ [][NextCommands]_vars

(***************************************************************************)
(* getDirectoryDiff on its own, for any text git might print: lines with   *)
(* a column missing or empty and blank lines among the well-formed ones.   *)
(* The lines are those of stdout.trim().split('\n'): the first starts and  *)
(* the last ends with a character that is not white space.                 *)
(***************************************************************************)
L_M == <<"M">>

L_M_empty == <<"M", TAB>>

L_R_ao == Line(<<<<"R", "1", "0", "0">>, P_ao>>)

L_C_t_empty == Line(<<<<"C", "1", "0", "0">>, P_t, <<>>>>)

L_blank == <<>>

ParserLines == {L_M_ax, L_D_t, L_R_ao_ax, L_M, L_M_empty, L_R_ao, L_C_t_empty, L_blank}

Trimmed(out) ==
    out # <<>> => /\ out[1] # <<>>
                  /\ out[1][1] # TAB
                  /\ out[Len(out)] # <<>>
                  /\ out[Len(out)][Len(out[Len(out)])] # TAB

ParserGitResults ==
    {GitFailure} \cup
    {[ok |-> TRUE, stdout |-> out] :
        out \in {o \in UNION {OutputsOfLen(ParserLines, n) : n \in 0..MaxLines} : Trimmed(o)}}

InitParse ==
    /\ Activated
    /\ \E gitResult \in ParserGitResults : reply = Reply("git diff", gitResult)

CallGetDirectoryDiff ==
    /\ reply.op = "git diff"
    /\ reply' = Reply("getDirectoryDiff",
                      [git |-> reply.value, records |-> GetDirectoryDiff(reply.value)])
    /\ UNCHANGED <<provider, inflight, fireCount, notified, fetched, cleared, cmd>>

NextParse == CallGetDirectoryDiff

SpecParse == InitParse /\ [][NextParse]_vars

(***************************************************************************)
(* The openFileDiff command, run by the tree view on an item the provider  *)
(* gave it.  cmd.item keeps the item's fields as the handler read them.    *)
(***************************************************************************)
\* !item.fileInfo || !item.repoRoot || !item.ref: undefined and '' are falsy
LacksDiffTarget(item) ==
    \/ ~IsSome(item.fileInfo)
    \/ ~IsSome(item.repoRoot) \/ item.repoRoot[1] = <<>>
    \/ ~IsSome(item.ref) \/ item.ref[1] = ""

\* lines 37-50: the guard, the uris, up to `await executeCommand('vscode.diff')`
OpenFileDiff(element) ==
    /\ cmd.pc \in Finished
    /\ element \in DOMAIN heap
    /\ LET c == [StartCommand("openFileDiff") EXCEPT !.item = Some(heap[element])]
       IN cmd' = IF LacksDiffTarget(heap[element]) THEN Return(c)
                 ELSE [c EXCEPT !.diffs = @ + 1, !.pc = "vscode.diff"]
    /\ UNCHANGED providerVars

\* a handler that awaits vscode.diff outside any try block
OpenFileDiffDone_NoCatch(diffOk) ==
    /\ cmd.name = "openFileDiff" /\ cmd.pc = "vscode.diff"
    /\ cmd' = IF diffOk THEN Return(cmd) ELSE Throw(cmd)
    /\ UNCHANGED providerVars

\* lines 49-53: vscode.diff resolves, or rejects and the catch block reports
OpenFileDiffDone(diffOk) ==
    /\ cmd.name = "openFileDiff" /\ cmd.pc = "vscode.diff"
    /\ cmd' = IF diffOk THEN Return(cmd) ELSE ShowAndReturn(cmd, "Failed to open diff")
    /\ UNCHANGED providerVars

\* what git answers while items are opened: an added and a deleted file
OpenGitResults ==
    {GitFailure, [ok |-> TRUE, stdout |-> <<L_A_aby>>],
     [ok |-> TRUE, stdout |-> <<L_A_aby, L_D_t>>]}

NextOpen ==
    \/ Operations(OpenGitResults)
    \/ \E element \in DOMAIN heap : OpenFileDiff(element)
    \/ \E diffOk \in BOOLEAN : OpenFileDiffDone(diffOk)

SpecOpen == Init /\ [][NextOpen]_vars

(***************************************************************************)
(* Reading a tree: these definitions look at the held tree only through    *)
(* the items' fields, never through the builder.                           *)
(***************************************************************************)
Range(seq) == {seq[i] : i \in DOMAIN seq}

Items == DOMAIN heap

FileItems == {id \in Items : ~heap[id].isFolder}

FolderItems == {id \in Items : heap[id].isFolder}

\* the items a walk along the names `parts` ends at: folders on the way, a file last
RECURSIVE WalkEnds(_, _)
WalkEnds(items, parts) ==
    LET named == {id \in Range(items) : heap[id].label = Head(parts)}
    IN IF Len(parts) = 1 THEN {id \in named : ~heap[id].isFolder}
       ELSE UNION {WalkEnds(heap[id].children, Tail(parts)) :
                       id \in {n \in named : heap[n].isFolder}}

\* the folders above an item, following the parent references
RECURSIVE FoldersAbove(_)
FoldersAbove(id) ==
    IF ~IsSome(heap[id].parent) THEN {}
    ELSE {heap[id].parent[1]} \cup FoldersAbove(heap[id].parent[1])

\* what a tree shows, without the identity of its items: per item the name, the
\* kind, the status and description, and the same of its children, in order
RECURSIVE Shape(_, _)
Shape(h, items) ==
    [i \in DOMAIN items |->
        LET item == h[items[i]]
        IN [label       |-> item.label,
            isFolder    |-> item.isFolder,
            status      |-> IF IsSome(item.fileInfo) THEN item.fileInfo[1].status ELSE "",
            description |-> item.description,
            children    |-> Shape(h, item.children)]]

\* a setCompareContext call has completed for a directory / for a single file
BuiltForDirectory == IsSome(fetched) /\ fetched[1].ctx.isDirectory

BuiltForFile == IsSome(fetched) /\ ~fetched[1].ctx.isDirectory

(***************************************************************************)
(* C1: after setCompareContext completes in directory mode, every record's *)
(* path is the path of exactly one file item of the tree, and that item is *)
(* the one the walk along the path's segments from the root list ends at.  *)
(***************************************************************************)
C1_EveryPathOneLeaf ==
    (BuiltForDirectory /\ IsSome(compareContext)) =>
        \A i \in DOMAIN changedFiles :
            LET path   == changedFiles[i].path
                leaves == {id \in FileItems : heap[id].fileInfo[1].path = path}
            IN /\ Cardinality(leaves) = 1
               /\ WalkEnds(rootItems, Split(path, SLASH)) = leaves

C1_Witness ==
    /\ BuiltForDirectory
    /\ Len(changedFiles) = 3
    /\ \E id \in FileItems : heap[id].fullPath = P_aby
    /\ \E id \in FileItems : heap[id].fullPath = P_t /\ ~IsSome(heap[id].parent)

(***************************************************************************)
(* C2: after every completed build, the count in each folder's description *)
(* is the number of file items anywhere below the folder, also when the    *)
(* files were added to a sub-folder after the folder was attached.         *)
(***************************************************************************)
FilesBelow(folder) == {id \in FileItems : folder \in FoldersAbove(id)}

C2_FolderCounts ==
    \A folder \in FolderItems :
        heap[folder].description = FolderDescription(Cardinality(FilesBelow(folder)))

C2_Witness ==
    \E folder \in FolderItems :
        /\ \A i \in DOMAIN heap[folder].children : heap[heap[folder].children[i]].isFolder
        /\ heap[folder].description[1] >= 1

(***************************************************************************)
(* What a git result says, read off its lines without the parser: the      *)
(* status is the first character of a line, the path its last column and   *)
(* the old path the middle column of a three-column line.                  *)
(***************************************************************************)
ReportedRecord(line) ==
    LET parts == Split(line, TAB)
    IN [status  |-> line[1],
        path    |-> parts[Len(parts)],
        oldPath |-> IF Len(parts) = 3 THEN Some(parts[2]) ELSE None]

ReportedRecords(gitResult) ==
    IF gitResult.ok THEN [i \in DOMAIN gitResult.stdout |-> ReportedRecord(gitResult.stdout[i])]
    ELSE <<>>

\* the target of a single-file context, relative to the repository root
TargetPath(ctx) == SubSeq(ctx.basePath, Len(ctx.repoRoot) + 2, Len(ctx.basePath))

\* the provider is Populated for ctx with what git answered to ctx's call
PopulatedFrom(ctx, gitResult) ==
    /\ compareContext = Some(ctx)
    /\ IF ctx.isDirectory THEN changedFiles = ReportedRecords(gitResult)
       ELSE Len(changedFiles) = 1 /\ changedFiles[1].path = TargetPath(ctx)
    /\ Cardinality(FileItems) = Len(changedFiles)
    /\ {heap[id].fileInfo[1] : id \in FileItems} = Range(changedFiles)
    /\ \A id \in Items : heap[id].ref = Some(ctx.ref) /\ heap[id].repoRoot = Some(ctx.repoRoot)
    /\ Items = Reachable(heap, rootItems)

(***************************************************************************)
(* C3: from Empty or Populated, a setCompareContext(ctx) call that is      *)
(* awaited with no other operation interleaved leaves the provider         *)
(* Populated: it holds ctx, the records git reported for ctx and the tree  *)
(* of those records, and it has fired one refresh notification.            *)
(***************************************************************************)
PopulatedFromFetched ==
    IsSome(fetched) /\ PopulatedFrom(fetched[1].ctx, fetched[1].git)

\* this step resolves the call `caller` made in the step before, nothing interleaved
ResolvesAwaited(caller) == AwaitedCall = caller /\ reply'.op = "resolved"

C3_AwaitedSetContextPopulates ==
    [][ResolvesAwaited("setCompareContext") =>
           /\ compareContext' = compareContext
           /\ PopulatedFromFetched'
           /\ fireCount' = fireCount + 1]_vars

C3_Witness ==
    /\ reply.op = "resolved"
    /\ reply.value[1] = "setCompareContext"
    /\ fireCount = 2
    /\ Len(rootItems) = 2
    /\ Len(changedFiles) = 3

(***************************************************************************)
(* C4: once clear() has run, and until setCompareContext is called again,  *)
(* getChildren() returns the empty list - also after a fetch that was      *)
(* started before the clear() has completed - and so does every            *)
(* getChildren call the tree view makes in that time.                      *)
(***************************************************************************)
C4_EmptyRootsAfterClear ==
    cleared =>
        /\ GetChildrenValue(None) = <<>>
        /\ reply.op = "getChildren" => reply.value = <<>>

C4_Witness ==
    /\ cleared
    /\ IsSome(fetched)
    /\ changedFiles # <<>>
    /\ reply.op = "getChildren"

(***************************************************************************)
(* C5: once clear() has run, and until setCompareContext is called again,  *)
(* the provider holds no context, no records and an empty root list - also *)
(* after a fetch that was started before the clear() has completed.        *)
(***************************************************************************)
C5_ClearDiscardsAll ==
    cleared => (compareContext = None /\ changedFiles = <<>> /\ rootItems = <<>>)

(***************************************************************************)
(* C6: refresh() without a held context is a no-op: context, records,      *)
(* tree, calls in flight and notifications stay as they are.  refresh()    *)
(* with a held context starts one setCompareContext call for that context  *)
(* and changes nothing else, and when the awaited call resolves the same   *)
(* context is still held.                                                  *)
(***************************************************************************)
C6_Refresh ==
    [][/\ reply'.op = "refresh" =>
            IF compareContext = None
            THEN /\ UNCHANGED <<compareContext, changedFiles, rootItems, heap>>
                 /\ UNCHANGED <<inflight, fireCount>>
                 /\ reply'.value = Some("done")
            ELSE /\ compareContext' = compareContext
                 /\ inflight' = [inflight EXCEPT ![compareContext[1]] = @ + 1]
                 /\ UNCHANGED <<changedFiles, rootItems, heap, fireCount>>
                 /\ reply'.value = Some("pending")
       /\ ResolvesAwaited("refresh") =>
            /\ IsSome(compareContext')
            /\ compareContext' = compareContext
            /\ fetched'[1].ctx = compareContext[1]]_vars

C6_Witness ==
    /\ reply = Reply("refresh", Some("done"))
    /\ compareContext = None
    /\ InflightCount = 1
    /\ fireCount >= 1

(***************************************************************************)
(* C7: an awaited refresh() for which git answers as it did for the tree   *)
(* held builds a tree of the same shape: the same names in the same order, *)
(* the same statuses and the same folder descriptions.  So two awaited     *)
(* refresh() calls in succession over an unchanged diff give equal trees.  *)
(***************************************************************************)
C7_RefreshSameTree ==
    [][(ResolvesAwaited("refresh") /\ reply'.value[2]) =>
           Shape(heap', rootItems') = Shape(heap, rootItems)]_vars

C7_Witness ==
    /\ reply = Reply("resolved", <<"refresh", TRUE>>)
    /\ fireCount = 3
    /\ Len(rootItems) = 2
    /\ \E id \in FolderItems : heap[id].description[1] = 2

(***************************************************************************)
(* C8: getChildren, getParent and getTreeItem leave the context, the       *)
(* records, the root list, every item, the calls in flight and the         *)
(* notification count as they are; the tree changes only in a step of      *)
(* setCompareContext (its completion, also when started by refresh) or of  *)
(* clear.                                                                  *)
(***************************************************************************)
C8_QueriesChangeNothing ==
    [][/\ reply'.op \in {"getChildren", "getParent", "getTreeItem"} =>
            UNCHANGED <<compareContext, changedFiles, rootItems, heap, inflight, fireCount>>
       /\ <<rootItems, heap>>' # <<rootItems, heap>> =>
            reply'.op \in {"resolved", "clear"}]_vars

C8_Witness ==
    /\ reply.op = "getParent"
    /\ IsSome(reply.value)
    /\ InflightCount = 1
    /\ Len(rootItems) = 2

(***************************************************************************)
(* C9 as stated: whenever git failed or reported nothing for the last      *)
(* completed setCompareContext call, for a directory or for a single file, *)
(* the provider holds no records and an empty root list.                   *)
(***************************************************************************)
FetchedNothing == IsSome(fetched) /\ ReportedRecords(fetched[1].git) = <<>>

C9_EmptyForEveryContext ==
    FetchedNothing => (changedFiles = <<>> /\ rootItems = <<>>)

(***************************************************************************)
(* C9 amended: a setCompareContext call for which git fails or reports     *)
(* nothing completes and fires one notification.  For a directory it       *)
(* leaves no records and an empty root list.  For a single file it leaves  *)
(* the one record (Modified, target path, no old path), and the tree is    *)
(* that one file below its folders when a context is held, else empty.     *)
(***************************************************************************)
SyntheticRecord(ctx) == [status |-> "M", path |-> TargetPath(ctx), oldPath |-> None]

C9_FailedFetch ==
    [][(reply'.op = "resolved" /\ FetchedNothing') =>
           /\ fireCount' = fireCount + 1
           /\ IF fetched'[1].ctx.isDirectory
              THEN changedFiles' = <<>> /\ rootItems' = <<>>
              ELSE /\ changedFiles' = <<SyntheticRecord(fetched'[1].ctx)>>
                   /\ IF IsSome(compareContext')
                      THEN /\ Cardinality(FileItems') = 1
                           /\ WalkEnds(rootItems, Split(TargetPath(fetched[1].ctx), SLASH))' = FileItems'
                      ELSE rootItems' = <<>>]_vars

C9_Witness ==
    /\ reply.op = "resolved"
    /\ FetchedNothing
    /\ ~fetched[1].git.ok
    /\ fetched[1].ctx.isDirectory
    /\ fireCount = 2
    /\ IsSome(compareContext)

(***************************************************************************)
(* C10: after a setCompareContext call for a single file completes, the    *)
(* provider holds one record: the line git reported for the target path,   *)
(* with its status and old path, or - when git reported no such line - a   *)
(* Modified record for the target path; the tree has exactly one file      *)
(* item, which shows that record and sits where the target path leads.     *)
(***************************************************************************)
C10_SingleFileRecord ==
    BuiltForFile =>
        LET ctx      == fetched[1].ctx
            target   == TargetPath(ctx)
            reported == ReportedRecords(fetched[1].git)
            hits     == {i \in DOMAIN reported : reported[i].path = target}
        IN /\ Len(changedFiles) = 1
           /\ changedFiles[1].path = target
           /\ \A i \in hits : changedFiles[1] = reported[i]
           /\ hits = {} => changedFiles[1] = [status |-> "M", path |-> target, oldPath |-> None]
           /\ Cardinality(FileItems) = 1
           /\ \A id \in FileItems : heap[id].fileInfo = Some(changedFiles[1])
           /\ WalkEnds(rootItems, Split(target, SLASH)) = FileItems

C10_Witness ==
    /\ BuiltForFile
    /\ Len(fetched[1].git.stdout) = 3
    /\ changedFiles[1].status = "R"
    /\ IsSome(changedFiles[1].oldPath)

(***************************************************************************)
(* C11: every completed setCompareContext call and every clear() fires     *)
(* exactly one notification, nothing else fires, and the listener called   *)
(* by the notification reads the root list the operation leaves: every     *)
(* item it can reach was made by this build, none by an earlier one.       *)
(***************************************************************************)
C11_FiresAfterReplace ==
    [][/\ reply'.op \in {"resolved", "clear"} <=> fireCount' = fireCount + 1
       /\ fireCount' \in {fireCount, fireCount + 1}
       /\ fireCount' # fireCount =>
            /\ notified' = rootItems'
            /\ \A id \in Reachable(heap', notified') : id[1] = fireCount']_vars

C11_Witness ==
    /\ reply.op = "resolved"
    /\ fireCount = 3
    /\ Len(notified) = 2
    /\ notified = rootItems

(***************************************************************************)
(* C12: after a directory fetch, the i-th record is the i-th line git      *)
(* printed: it has an old path exactly when its status is R or C, and then *)
(* the old path is the line's second column and the path its third; with   *)
(* any other status the path is the second column.  The file item built    *)
(* for the record carries the record itself, path and old path unchanged.  *)
(***************************************************************************)
C12_OldPathIffRenamedOrCopied ==
    (BuiltForDirectory /\ fetched[1].git.ok) =>
        /\ Len(changedFiles) = Len(fetched[1].git.stdout)
        /\ \A i \in DOMAIN changedFiles :
              LET record  == changedFiles[i]
                  columns == Split(fetched[1].git.stdout[i], TAB)
                  leaves  == {id \in FileItems : heap[id].fullPath = record.path}
              IN /\ IsSome(record.oldPath) <=> record.status \in {"R", "C"}
                 /\ record.status = columns[1][1]
                 /\ IF record.status \in {"R", "C"}
                    THEN record.oldPath = Some(columns[2]) /\ record.path = columns[3]
                    ELSE record.path = columns[2]
                 /\ leaves # {}
                 /\ \A id \in leaves : heap[id].fileInfo = Some(record)

C12_Witness ==
    /\ BuiltForDirectory
    /\ \E i \in DOMAIN changedFiles :
          changedFiles[i].status = "C" /\ changedFiles[i].oldPath = Some(P_t)
    /\ \E i \in DOMAIN changedFiles :
          changedFiles[i].status = "R" /\ changedFiles[i].oldPath = Some(P_ao)
    /\ \E id \in FileItems :
          heap[id].fileInfo[1].status = "D" /\ heap[id].fileInfo[1].oldPath = None

(***************************************************************************)
(* C13 as stated: in every built tree no two items of the root list, and   *)
(* no two children of a folder, have the same name.                        *)
(***************************************************************************)
DistinctNames(items) ==
    \A i, j \in DOMAIN items : i # j => heap[items[i]].label # heap[items[j]].label

C13_NoSameNameSiblings ==
    /\ DistinctNames(rootItems)
    /\ \A folder \in FolderItems : DistinctNames(heap[folder].children)

(***************************************************************************)
(* C14: the root list and every folder's child list are in sorted-path     *)
(* order: an item stands before its sibling exactly when the smallest      *)
(* record path at or below it sorts before the smallest record path at or  *)
(* below the sibling, files and folders alike.  For the records d/a,       *)
(* d/u/b and t the root list is [d, t] and d's children are [a, u].        *)
(***************************************************************************)
PathsAt(id) ==
    IF heap[id].isFolder THEN {heap[f].fullPath : f \in FilesBelow(id)}
    ELSE {heap[id].fullPath}

SmallestPath(id) ==
    CHOOSE p \in PathsAt(id) : \A q \in PathsAt(id) : LocaleCompare(p, q) <= 0

SortedPathOrder(items) ==
    \A i, j \in DOMAIN items :
        i < j <=> LocaleCompare(SmallestPath(items[i]), SmallestPath(items[j])) < 0

Labels(items) == [i \in DOMAIN items |-> heap[items[i]].label]

C14_SiblingsInSortedPathOrder ==
    /\ SortedPathOrder(rootItems)
    /\ \A folder \in FolderItems : SortedPathOrder(heap[folder].children)
    /\ (BuiltForDirectory /\ {changedFiles[i].path : i \in DOMAIN changedFiles} = {P_da, P_dub, P_t}) =>
          /\ Labels(rootItems) = << <<"d">>, <<"t">> >>
          /\ Labels(heap[rootItems[1]].children) = << <<"a">>, <<"u">> >>

C14_Witness ==
    /\ BuiltForDirectory
    /\ fetched[1].git.stdout = <<L_D_t, L_M_dub, L_A_da>>
    /\ Labels(rootItems) = << <<"d">>, <<"t">> >>

(***************************************************************************)
(* C15 as stated: in a run of rebaseOnto, `git rebase <target>` is run, or *)
(* about to be run, only when all of these held, in this order: the        *)
(* repository root was resolved, HEAD was on a branch, no rebase was in    *)
(* progress, the working tree was clean, a ref entry was picked and        *)
(* 'Rebase' was confirmed; the target is the picked entry's name.  With a  *)
(* rebase found in progress, only `git rebase --abort` or `git rebase      *)
(* --continue` is ever run.                                                *)
(***************************************************************************)
RebaseChecks == <<"repoRoot", "onBranch", "noRebaseInProgress", "clean", "picked", "confirmed">>

RanGit(arguments) == \E i \in DOMAIN cmd.git : cmd.git[i] = arguments

RebaseStarted ==
    cmd.pc = "rebase" \/ \E i \in DOMAIN cmd.git : cmd.git[i][2] \notin {"--abort", "--continue"}

C15_RebaseOnlyAfterChecks ==
    cmd.name = "rebaseOnto" =>
        /\ RebaseStarted =>
              /\ cmd.log = RebaseChecks
              /\ cmd.inProgress = "none"
              /\ \E i \in DOMAIN cmd.items :
                    cmd.items[i].kind = "entry" /\ cmd.items[i].ref[1].name = cmd.target
              /\ \A i \in DOMAIN cmd.git :
                    cmd.git[i] = <<"rebase", cmd.target>> => i = 1
        /\ cmd.log # RebaseChecks => ~RanGit(<<"rebase", cmd.target>>)
        /\ (\E i \in DOMAIN cmd.log : cmd.log[i] = "rebaseInProgress") =>
              \A i \in DOMAIN cmd.git :
                  cmd.git[i] \in {<<"rebase", "--abort">>, <<"rebase", "--continue">>}

(***************************************************************************)
(* C16 as stated: when rebaseOnto has run `git rebase --abort`, the        *)
(* handler ends by showing 'Rebase aborted' or 'Rebase abort failed', and  *)
(* it never ends with an exception.                                        *)
(***************************************************************************)
C16_AbortAlwaysReports ==
    (cmd.name = "rebaseOnto" /\ cmd.pc \in Finished /\ RanGit(<<"rebase", "--abort">>)) =>
        /\ cmd.pc = "returned"
        /\ cmd.shown # <<>>
        /\ cmd.shown[Len(cmd.shown)] \in {"Rebase aborted", "Rebase abort failed"}

(***************************************************************************)
(* C17 as stated: for every history git reports, commits with '|' in the   *)
(* subject included, getFileHistory and getDirectoryHistory return one     *)
(* CommitInfo a commit whose message is the whole subject and whose author *)
(* and date are the commit's author and date.                              *)
(***************************************************************************)
C17_PipesKeepHistoryIntact ==
    (reply.op \in {"getFileHistory", "getDirectoryHistory"} /\ reply.value.ok) =>
        /\ Len(reply.value.commits) = Len(reply.value.history)
        /\ \A i \in DOMAIN reply.value.history :
              /\ reply.value.commits[i].message = reply.value.history[i].subject
              /\ reply.value.commits[i].author = reply.value.history[i].author
              /\ reply.value.commits[i].date = reply.value.history[i].date

(***************************************************************************)
(* C19: getDirectoryDiff returns, in order, one record for each line that  *)
(* has a path (a non-empty second column, or third column for status R or  *)
(* C) and none for the other lines; a line without a path does not make    *)
(* the lines before or after it disappear.                                 *)
(***************************************************************************)
WellFormed(line) ==
    /\ line # <<>>
    /\ LET parts == Split(line, TAB)
       IN IF line[1] \in {"R", "C"} THEN Len(parts) >= 3 /\ parts[3] # <<>>
          ELSE Len(parts) >= 2 /\ parts[2] # <<>>

C19_MalformedLinesDropped ==
    (reply.op = "getDirectoryDiff" /\ reply.value.git.ok) =>
        LET wellFormed == SelectSeq(reply.value.git.stdout, WellFormed)
        IN /\ Len(reply.value.records) = Len(wellFormed)
           /\ \A i \in DOMAIN wellFormed : reply.value.records[i] = ReportedRecord(wellFormed[i])

C19_Witness ==
    /\ reply.op = "getDirectoryDiff"
    /\ reply.value.git.stdout = <<L_M_ax, L_R_ao, L_D_t>>
    /\ Len(reply.value.records) = 2

(***************************************************************************)
(* C18: in every step of compareWithRevision and compareWithBranch: a run  *)
(* on a single file that got a pick has executed vscode.diff once, has     *)
(* called setCompareContext never, and no step of it changes the           *)
(* provider's context, records, tree or suspended calls or fires the       *)
(* notification; a run on a directory that got a pick has called           *)
(* setCompareContext once, with isDirectory true and in that step the      *)
(* provider holds that context, and has executed no vscode.diff; a run     *)
(* that has no pick (every early exit) has done neither and left the       *)
(* provider alone.                                                         *)
(***************************************************************************)
CompareCommands == {"compareWithRevision", "compareWithBranch"}

GotPick(c) == \E i \in DOMAIN c.log : c.log[i] = "picked"

ProviderUntouched ==
    UNCHANGED <<compareContext, changedFiles, rootItems, heap, inflight, fireCount, notified>>

C18_StepByTargetKind ==
    (cmd' # cmd /\ cmd'.name \in CompareCommands) =>
        /\ (~cmd'.isDirectory /\ GotPick(cmd')) => cmd'.diffs = 1 /\ cmd'.calls = <<>>
        /\ (cmd'.isDirectory /\ GotPick(cmd')) =>
              /\ cmd'.diffs = 0
              /\ Len(cmd'.calls) = 1
              /\ cmd'.calls[1].isDirectory
              /\ cmd.pc = "showQuickPick" =>
                    /\ compareContext' = Some(cmd'.calls[1])
                    /\ inflight'[cmd'.calls[1]] = inflight[cmd'.calls[1]] + 1
        /\ ~GotPick(cmd') => cmd'.diffs = 0 /\ cmd'.calls = <<>>
        /\ (~cmd'.isDirectory \/ ~GotPick(cmd') \/ cmd.pc = "setCompareContext") =>
              ProviderUntouched

C18_DataFlowByTargetKind == [][C18_StepByTargetKind]_vars

\* a file comparison has ended while the panel shows an earlier directory
\* comparison
C18_Witness ==
    /\ cmd.name = "compareWithBranch"
    /\ cmd.pc = "returned"
    /\ ~cmd.isDirectory
    /\ cmd.diffs = 1
    /\ compareContext = Some(CtxDirA)
    /\ fireCount = 1

(***************************************************************************)
(* C20: in the list compareWithBranch or rebaseOnto has built, no entry of *)
(* a later group stands before an entry of an earlier one (local branches, *)
(* remote branches, tags); a group with entries has one separator, carrying *)
(* its title and standing right before its first entry; a group without    *)
(* entries has no separator; the list of rebaseOnto has no entry for the   *)
(* local branch that is checked out.                                       *)
(***************************************************************************)
GroupTitles == [branch |-> "Local Branches", remote |-> "Remote Branches", tag |-> "Tags"]

GroupRank == [branch |-> 1, remote |-> 2, tag |-> 3]

EntriesOf(items, type) ==
    {i \in DOMAIN items : items[i].kind = "entry" /\ items[i].ref[1].type = type}

SeparatorsOf(items, type) ==
    {i \in DOMAIN items : items[i].kind = "separator" /\ items[i].label = <<GroupTitles[type]>>}

Grouped(items) ==
    /\ \A i, j \in DOMAIN items :
          (i < j /\ items[i].kind = "entry" /\ items[j].kind = "entry")
              => GroupRank[items[i].ref[1].type] <= GroupRank[items[j].ref[1].type]
    /\ \A type \in DOMAIN GroupTitles :
          IF EntriesOf(items, type) = {} THEN SeparatorsOf(items, type) = {}
          ELSE /\ Cardinality(SeparatorsOf(items, type)) = 1
               /\ \A e \in EntriesOf(items, type) :
                     (\A o \in EntriesOf(items, type) : e <= o) => (e - 1) \in SeparatorsOf(items, type)
    /\ \A i \in DOMAIN items :
          items[i].kind = "separator" => \E type \in DOMAIN GroupTitles : i \in SeparatorsOf(items, type)

BuiltList == cmd.name \in {"compareWithBranch", "rebaseOnto"} /\ cmd.pc = "showQuickPick"

C20_QuickPickGrouped ==
    BuiltList =>
        /\ Grouped(cmd.items)
        /\ cmd.name = "rebaseOnto" =>
              \A i \in EntriesOf(cmd.items, "branch") : cmd.items[i].ref[1].name # cmd.branch

\* rebaseOnto on branch main offers dev, a remote branch and a tag, but no
\* local main, although git listed it
C20_Witness ==
    /\ cmd.name = "rebaseOnto"
    /\ cmd.pc = "showQuickPick"
    /\ cmd.branch = "main"
    /\ Len(cmd.items) = 7
    /\ cmd.items[2] = Entry([name |-> "dev", type |-> "branch"])
    /\ Cardinality(EntriesOf(cmd.items, "tag")) = 2

(***************************************************************************)
(* C21: openFileDiff never ends by throwing.  Run on a file item with an   *)
(* Added or Deleted record (and a repository root and a ref) it executes   *)
(* vscode.diff once and ends having opened the view or having shown the    *)
(* one error message; run on an item without a record, a root or a ref it  *)
(* executes nothing and shows nothing.                                     *)
(***************************************************************************)
C21_OpenFileDiffCompletes ==
    cmd.name = "openFileDiff" =>
        /\ cmd.pc # "threw"
        /\ cmd.pc = "returned" =>
              IF LacksDiffTarget(cmd.item[1]) THEN cmd.diffs = 0 /\ cmd.shown = <<>>
              ELSE cmd.item[1].fileInfo[1].status \in {"A", "D"} =>
                      /\ cmd.diffs = 1
                      /\ cmd.shown \in {<<>>, <<"Failed to open diff">>}

\* the diff of a deleted file was rejected and reported
C21_Witness ==
    /\ cmd.name = "openFileDiff"
    /\ cmd.pc = "returned"
    /\ ~LacksDiffTarget(cmd.item[1])
    /\ cmd.item[1].fileInfo[1].status = "D"
    /\ cmd.shown = <<"Failed to open diff">>

(***************************************************************************)
(* C22: when no fetch is in flight any more and a context is held, the     *)
(* fetch that completed last was the one of the held context, and the      *)
(* records and the tree held are those of that fetch - whatever the order  *)
(* in which overlapping calls completed.                                   *)
(***************************************************************************)
Quiescent == InflightCount = 0 /\ IsSome(compareContext) /\ IsSome(fetched)

C22_LaterCallWins ==
    Quiescent => (fetched[1].ctx = compareContext[1] /\ PopulatedFromFetched)

(***************************************************************************)
(* C23: in every state, also while a fetch is in flight, the root list     *)
(* getChildren() returns is empty, or the provider holds the records that  *)
(* were fetched for the held context and the tree built from them, each    *)
(* item carrying the held context's ref and repository root.               *)
(***************************************************************************)
C23_ContextAndTreeTogether ==
    \/ GetChildrenValue(None) = <<>>
    \/ /\ IsSome(fetched)
       /\ fetched[1].ctx = compareContext[1]
       /\ PopulatedFromFetched

(***************************************************************************)
(* C24: when a setCompareContext call (made by a command or by refresh)    *)
(* completes, no item of the tree held before is reachable from the new    *)
(* root list, the build has changed no item of the tree held before (no    *)
(* old folder got a child), and the build's lookup table names only        *)
(* folders the build itself made.                                          *)
(***************************************************************************)
C24_StepFromScratch ==
    reply'.op = "resolved" =>
        LET st == BuildState(compareContext, changedFiles', rootItems, heap, fireCount')
        IN /\ Reachable(heap', rootItems') \cap DOMAIN heap = {}
           /\ \A id \in DOMAIN heap : st.heap[id] = heap[id]
           /\ \A currentPath \in DOMAIN st.folderMap : st.folderMap[currentPath] \notin DOMAIN heap

C24_EveryBuildFromScratch == [][C24_StepFromScratch]_vars

\* a fetch that answered as the one before has completed: the tree held before
\* had folders of the same paths as the new one
C24_Witness ==
    /\ reply.op = "resolved"
    /\ reply.value[2]
    /\ fireCount >= 2
    /\ \E id \in DOMAIN heap : heap[id].isFolder /\ id[1] = fireCount

(***************************************************************************)
(* C25: in every built tree, for every item n reachable from the root list *)
(* and every c in getChildren(n), getParent(c) is n; the items of the root *)
(* list have parent null; a file item has no children; and from every item *)
(* the parent references lead to null in at most as many steps as there    *)
(* are items.                                                              *)
(***************************************************************************)
GetParentValue(element) == heap[element].parent

\* following getParent from `element` reaches null within `steps` steps
RECURSIVE ReachesNull(_, _)
ReachesNull(element, steps) ==
    \/ ~IsSome(GetParentValue(element))
    \/ steps > 0 /\ ReachesNull(GetParentValue(element)[1], steps - 1)

C25_ParentsAgreeWithChildren ==
    LET reachable == Reachable(heap, rootItems)
    IN /\ \A n \in reachable :
             /\ \A c \in Range(GetChildrenValue(Some(n))) : GetParentValue(c) = Some(n)
             /\ ~heap[n].isFolder => GetChildrenValue(Some(n)) = <<>>
             /\ ReachesNull(n, Cardinality(reachable))
       /\ \A r \in Range(GetChildrenValue(None)) : GetParentValue(r) = None

\* a file two folders deep beside a file at root level
C25_Witness ==
    /\ reply.op = "resolved"
    /\ \E f \in FileItems :
          /\ IsSome(GetParentValue(f))
          /\ IsSome(GetParentValue(GetParentValue(f)[1]))
          /\ GetParentValue(GetParentValue(f)[1])[1] \in Range(rootItems)
    /\ \E f \in FileItems : f \in Range(rootItems)

(***************************************************************************)
(* C26: the tree built from a collection of records with pairwise distinct *)
(* paths is the same for every order of the collection: the tree held      *)
(* after a build shows the same items, in the same order and with the same *)
(* counts, as the tree built from any reordering of the held records.      *)
(***************************************************************************)
Reorderings(files) == Orderings(Range(files))

BuiltShape(files) ==
    LET built == BuildTreeStructure(compareContext, files, <<>>, EmptyHeap, 1)
    IN Shape(built.heap, built.roots)

C26_OrderIndependent ==
    reply.op = "resolved" =>
        \A files \in Reorderings(changedFiles) : BuiltShape(files) = Shape(heap, rootItems)

\* git printed a/x, A/o, a/b/y: in sorted order A/o stands between the two
\* records of folder a
C26_Witness ==
    /\ reply.op = "resolved"
    /\ [i \in DOMAIN changedFiles |-> changedFiles[i].path] = <<P_ax, P_Ao, P_aby>>
    /\ Len(rootItems) = 2
    /\ heap[rootItems[1]].description = FolderDescription(2)

(***************************************************************************)
(* C27: buildTreeStructure returns for every record collection: every      *)
(* record has its file item in the tree; the empty collection gives the    *)
(* empty root list; a record whose path has no '/' has a file item in the  *)
(* root list, without a parent.                                            *)
(***************************************************************************)
HasNoSlash(path) == \A i \in DOMAIN path : path[i] # SLASH

RootFileItems(file) ==
    {i \in DOMAIN rootItems : /\ ~heap[rootItems[i]].isFolder
                              /\ heap[rootItems[i]].fileInfo = Some(file)
                              /\ heap[rootItems[i]].parent = None}

C27_BuilderTotal ==
    reply.op = "buildTreeStructure" =>
        /\ changedFiles = <<>> => rootItems = <<>>
        /\ Cardinality({id \in Reachable(heap, rootItems) : ~heap[id].isFolder}) = Len(changedFiles)
        /\ \A i \in DOMAIN changedFiles :
              HasNoSlash(changedFiles[i].path) =>
                 Cardinality(RootFileItems(changedFiles[i]))
                     = Cardinality({j \in DOMAIN changedFiles : changedFiles[j] = changedFiles[i]})

\* a file at root level, the empty path and a nested file, built in one tree
C27_Witness ==
    /\ reply.op = "buildTreeStructure"
    /\ Len(changedFiles) = 3
    /\ \E i, j, k \in DOMAIN changedFiles :
          /\ changedFiles[i].path = P_t
          /\ changedFiles[j].path = <<>>
          /\ changedFiles[k].path = P_aby
    /\ Len(rootItems) = 3

====
